---- MODULE Spec2Model ----
(***************************************************************************)
(* Huntarr [Lidarr Edition]: the selection-and-pacing passes               *)
(* (missing/*.py, upgrade/*.py, huntarr.py) and the cycle orchestrator     *)
(* with its persisted state (main.py).                                     *)
(***************************************************************************)
EXTENDS Integers, Sequences, FiniteSets, TLC

\* ------------------------------------------------------------------ bounds
MaxN == 3          \* most items the upstream returns in one read
MaxQuota == 2      \* largest per-pass quota explored (smallest is -1)
MaxTime == 3       \* last clock value (hours)
pageSize == 1      \* records of a full wanted page (the request asks for 50)
MaxAlbums == 1     \* most albums of one artist
MaxTracks == 1     \* most tracks of one album
MaxQuality == 3    \* largest quality id and cutoff id

\* The width of the libraries on which the order of the candidates is
\* checked: artists, albums per artist, tracks per album (at least two of
\* each, so that every level has an order).
OrderArtists == MaxN - 1

OrderAlbums == MaxAlbums + 1

OrderTracks == MaxTracks + 1

\* --------------------------------------------------------- program constants
SLEEP_DURATION == 900

VARIABLES
  \* configuration, read once from the environment
  HUNT_MISSING_ITEMS,          \* config.py: quota of the missing passes
  MAX_ITEMS,                   \* quota of the upgrade and legacy passes
  HUNT_UPGRADE_ALBUMS,         \* config.py: read from the environment, logged,
                               \* and consulted by no pass
  RANDOM_SELECTION,
  MONITORED_ONLY,
  HUNT_MISSING_MODE,
  STATE_RESET_INTERVAL_HOURS,
  \* the library the Lidarr server holds
  upstream,                    \* artists: the artist list; n: the number of
                               \* albums / tracks / artists a collector finds
  \* the pass that is running
  pass,                        \* name of the pass function, "none" outside
  phase,                       \* "call", "loop", "page", "returned"
  processed_artists,           \* argument of process_artists_missing
  candidates,                  \* incomplete_artists / incomplete_albums / upgrade_candidates
  used_indices,
  processed_count,
  newly_processed,
  page,                        \* process_songs_upgrade: page number
  records,                     \* process_songs_upgrade: len(records) of the page
  indices,                     \* process_songs_upgrade: indices still to iterate
  ret,                         \* value the pass returned
  log,                         \* commands posted and sleeps taken, in order
  attempts,                    \* per selected candidate: index and branch taken
  \* the orchestrator (main.py)
  pc,
  state,                       \* the state dict of the running cycle
  stateFile,                   \* state.json on disk
  now,                         \* the clock, in hours
  processing_done,
  pre                          \* the state dict as load_state returned it

cfgVars == <<HUNT_MISSING_ITEMS, MAX_ITEMS, HUNT_UPGRADE_ALBUMS, RANDOM_SELECTION,
             MONITORED_ONLY, HUNT_MISSING_MODE, STATE_RESET_INTERVAL_HOURS>>
passVars == <<upstream, pass, phase, processed_artists, candidates, used_indices,
              processed_count, newly_processed, page, records, indices, ret,
              log, attempts>>
mainVars == <<pc, state, stateFile, now, processing_done, pre>>
vars == <<cfgVars, passVars, mainVars>>

\* ------------------------------------------------------------------ helpers
Min(S) == CHOOSE x \in S : \A y \in S : x <= y

MinOf(a, b) == IF a <= b THEN a ELSE b

Range(s) == {s[i] : i \in 1..Len(s)}

RECURSIVE SelectSeqBy(_, _)
\* [x for x in s if Keep(x)] with Keep given as the set of kept positions
SelectSeqBy(s, keep) ==
  IF s = <<>> THEN <<>>
  ELSE LET rest == SelectSeqBy(Tail(s), {k - 1 : k \in keep \ {1}})
       IN IF 1 \in keep THEN <<Head(s)>> \o rest ELSE rest

\* A response of lidarr_request: None, a body without "id", a body with "id".
Responses == {"None", "NoId", "Id"}

\* `resp and "id" in resp`
Acked(resp) == resp = "Id"

\* One POST command / one time.sleep, as recorded in the log.
Cmd(name, key, id, resp, idx) ==
  [cmd |-> name, key |-> key, id |-> id, ack |-> Acked(resp), idx |-> idx]

Sleep(secs, idx) ==
  [cmd |-> "sleep", key |-> "seconds", id |-> secs, ack |-> FALSE, idx |-> idx]

\* One GET request of a collector, as recorded in the log.
Get(endpoint, ok) ==
  [cmd |-> "GET", key |-> endpoint, id |-> 0, ack |-> ok, idx |-> -1]

IsSearch(e) == e.cmd \in {"MissingAlbumSearch", "AlbumSearch", "TrackSearch"}

\* Variant: random.randint without the `if idx not in used_indices` test.
random_any(n, used) == 0..(n - 1)

\* while True: idx = random.randint(0, n - 1); if idx not in used_indices: break
random_unused(n, used) == {i \in 0..(n - 1) : i \notin used}

\* Variant: idx_candidates[-1]
last_unused(n, used) ==
  LET idx_candidates == {i \in 0..(n - 1) : i \notin used}
  IN IF idx_candidates = {} THEN {}
     ELSE {CHOOSE x \in idx_candidates : \A y \in idx_candidates : y <= x}

\* idx_candidates = [i for i in range(n) if i not in used_indices];
\* idx = idx_candidates[0]
first_unused(n, used) ==
  LET idx_candidates == {i \in 0..(n - 1) : i \notin used}
  IN IF idx_candidates = {} THEN {} ELSE {Min(idx_candidates)}

\* The index the selection step yields: rejection sampling over the unused
\* indices in random mode, the lowest unused index otherwise.  The empty set
\* is the `if not idx_candidates: break` case.
SelectIdx(n, used) ==
  IF RANDOM_SELECTION /\ n > 1
    THEN random_unused(n, used)
    ELSE first_unused(n, used)

\* Variant: `len(used_indices) > len(candidates)`.
Exhausted_when_over(n, used) == Cardinality(used) > n

\* `len(used_indices) >= len(candidates)`
Exhausted(n, used) == Cardinality(used) >= n

\* ------------------------------------------------ upstream reads (artists)
ArtistKinds == {"incomplete", "complete", "unmonitored"}

Artist(i, kind) ==
  [id |-> i,
   monitored |-> kind # "unmonitored",
   trackCount |-> 2,
   trackFileCount |-> IF kind = "complete" THEN 2 ELSE 1]

\* The artist lists a server may hold.
ArtistLists ==
  UNION {{[i \in 1..n |-> Artist(i, k[i])] : k \in [1..n -> ArtistKinds]}
         : n \in 0..MaxN}

\* get_artists_json(): None on a failed request, else the artist list.
get_artists_json(ok) ==
  IF ok THEN [ok |-> TRUE, body |-> upstream.artists]
        ELSE [ok |-> FALSE, body |-> <<>>]

\* `not artists`: the request failed or the list is empty
NoData(read) == ~read.ok \/ read.body = <<>>

\* What a pass returns: None, or (process_artists_missing) a list of ids.
NoneValue == [none |-> TRUE, list |-> <<>>]

ListValue(l) == [none |-> FALSE, list |-> l]

\* Variant: `trackCount >= trackFileCount`.
IncompleteArtists_or_complete(artists, processed) ==
  SelectSeqBy(artists,
    {i \in 1..Len(artists) :
       /\ MONITORED_ONLY => artists[i].monitored = TRUE
       /\ artists[i].trackCount >= artists[i].trackFileCount
       /\ artists[i].id \notin Range(processed)})

\* missing/artist.py: the incomplete artists not yet processed
IncompleteArtists(artists, processed) ==
  SelectSeqBy(artists,
    {i \in 1..Len(artists) :
       /\ MONITORED_ONLY => artists[i].monitored = TRUE
       /\ artists[i].trackCount > artists[i].trackFileCount
       /\ artists[i].id \notin Range(processed)})

\* A candidate descriptor; artist-level candidates carry only artistId.
ArtistCandidate(a) == [artistId |-> a.id, albumId |-> 0, trackId |-> 0]

ArtistCandidates(as) == [i \in 1..Len(as) |-> ArtistCandidate(as[i])]

\* Album- and track-level candidates: albums 11, 12, ... of artists 1, 1, 2, 2, ...
LeafCandidate(i) ==
  [artistId |-> (i + 1) \div 2, albumId |-> 10 + i, trackId |-> 20 + i]

LeafCandidates(n) == [i \in 1..n |-> LeafCandidate(i)]

\* ------------------------------------------------------------ pass frame
Return(value, entries) ==
  /\ phase' = "returned"
  /\ ret' = value
  /\ log' = log \o entries
  /\ UNCHANGED <<candidates, used_indices, processed_count>>

EnterLoop(cands, entries) ==
  /\ phase' = "loop"
  /\ candidates' = cands
  /\ used_indices' = {}
  /\ processed_count' = 0
  /\ log' = log \o entries
  /\ UNCHANGED ret

\* The collectors of the album- and track-level passes, as far as the loop
\* depends on them: the reads fail or find nothing (n = 0), or they yield
\* the n candidates the library holds.
Collected(ok) == IF ok THEN upstream.n ELSE 0

\* What one run of the per-item workflow did: the commands and sleeps, the
\* branch it ended in, the increment of processed_count, the ids recorded.
Attempt(entries, result, count, newly) ==
  [entries |-> entries, result |-> result, count |-> count, newly |-> newly]

\* Variant: `newly_processed.append(artist_id)` outside the test of the
\* search response.
ApplyAttempt_recording_every_attempt(idx, w) ==
  /\ used_indices' = used_indices \cup {idx}
  /\ processed_count' = processed_count + w.count
  /\ newly_processed' = newly_processed \o <<candidates[idx + 1].artistId>>
  /\ log' = log \o w.entries
  /\ attempts' = Append(attempts, [idx |-> idx, result |-> w.result])

ApplyAttempt(idx, w) ==
  /\ used_indices' = used_indices \cup {idx}
  /\ processed_count' = processed_count + w.count
  /\ newly_processed' = newly_processed \o w.newly
  /\ log' = log \o w.entries
  /\ attempts' = Append(attempts, [idx |-> idx, result |-> w.result])

\* One iteration of `while True:` that selects: the two exit tests fail
\* (Selecting), an index is selected and marked used, and the workflow runs
\* on that candidate (r, s, f: the responses to refresh, search and fallback,
\* where posted); nothing else changes (IterateFrame).
Selecting(name, quota_reached) ==
  /\ pass = name /\ phase = "loop"
  /\ ~quota_reached
  /\ ~Exhausted(Len(candidates), used_indices)

IterateFrame ==
  /\ UNCHANGED <<upstream, pass, phase, processed_artists, candidates, page,
                 records, indices, ret>>
  /\ UNCHANGED <<cfgVars, mainVars>>

\* The iteration of `while True:` that breaks, and the function's return.
Exit(name, quota_reached, value) ==
  /\ pass = name /\ phase = "loop"
  /\ \/ quota_reached
     \/ Exhausted(Len(candidates), used_indices)
     \/ SelectIdx(Len(candidates), used_indices) = {}
  /\ phase' = "returned"
  /\ ret' = value
  /\ UNCHANGED <<upstream, pass, processed_artists, candidates, used_indices,
                 processed_count, newly_processed, page, records, indices,
                 log, attempts>>
  /\ UNCHANGED <<cfgVars, mainVars>>

\* ============================================================================
\* missing/artist.py  process_artists_missing(processed_artists)
\* ============================================================================
\* Variant: `return []` after the failed read.
process_artists_missing_start_returning_empty ==
  /\ pass = "process_artists_missing" /\ phase = "call"
  /\ \/ /\ HUNT_MISSING_ITEMS <= 0
        /\ Return(ListValue(processed_artists), <<>>)
     \/ /\ HUNT_MISSING_ITEMS > 0
        /\ \E ok \in BOOLEAN :
             LET artists == get_artists_json(ok)
                 incomplete_artists ==
                   IncompleteArtists(artists.body, processed_artists)
             IN IF NoData(artists)
                  THEN Return(ListValue(<<>>),
                              <<Get("artist", ok), Sleep(60, -1)>>)
                ELSE IF incomplete_artists = <<>>
                  THEN Return(ListValue(processed_artists),
                              IF processed_artists = <<>>
                                THEN <<Get("artist", ok), Sleep(60, -1)>>
                                ELSE <<Get("artist", ok)>>)
                ELSE EnterLoop(ArtistCandidates(incomplete_artists),
                               <<Get("artist", ok)>>)
  /\ newly_processed' = <<>>
  /\ UNCHANGED <<upstream, pass, processed_artists, page, records, indices, attempts>>
  /\ UNCHANGED <<cfgVars, mainVars>>

process_artists_missing_start ==
  /\ pass = "process_artists_missing" /\ phase = "call"
  /\ \/ /\ HUNT_MISSING_ITEMS <= 0
        /\ Return(ListValue(processed_artists), <<>>)
     \/ /\ HUNT_MISSING_ITEMS > 0
        /\ \E ok \in BOOLEAN :
             LET artists == get_artists_json(ok)
                 incomplete_artists ==
                   IncompleteArtists(artists.body, processed_artists)
             IN IF NoData(artists)
                  THEN Return(ListValue(processed_artists),
                              <<Get("artist", ok), Sleep(60, -1)>>)
                ELSE IF incomplete_artists = <<>>
                  THEN Return(ListValue(processed_artists),
                              IF processed_artists = <<>>
                                THEN <<Get("artist", ok), Sleep(60, -1)>>
                                ELSE <<Get("artist", ok)>>)
                ELSE EnterLoop(ArtistCandidates(incomplete_artists),
                               <<Get("artist", ok)>>)
  /\ newly_processed' = <<>>
  /\ UNCHANGED <<upstream, pass, processed_artists, page, records, indices, attempts>>
  /\ UNCHANGED <<cfgVars, mainVars>>

\* `if processed_count >= HUNT_MISSING_ITEMS: break`
process_artists_missing_quota_reached ==
  processed_count >= HUNT_MISSING_ITEMS

\* Variant: no fallback AlbumSearch after an unacknowledged MissingAlbumSearch.
process_artists_missing_workflow_without_fallback(c, idx, r, s, f) ==
  LET refresh == Cmd("RefreshArtist", "artistIds", c.artistId, r, idx)
      search == Cmd("MissingAlbumSearch", "artistIds", c.artistId, s, idx)
  IN IF ~Acked(r)
       THEN Attempt(<<refresh, Sleep(10, idx)>>, "RefreshFailed", 0, <<>>)
     ELSE IF Acked(s)
       THEN Attempt(<<refresh, Sleep(5, idx), search,
                      Sleep(SLEEP_DURATION, idx)>>,
                    "SearchAccepted", 1, <<c.artistId>>)
     ELSE Attempt(<<refresh, Sleep(5, idx), search,
                    Sleep(SLEEP_DURATION, idx)>>,
                  "SearchFailed", 1, <<>>)

\* refresh -> MissingAlbumSearch -> fallback AlbumSearch by artist
process_artists_missing_workflow(c, idx, r, s, f) ==
  LET refresh == Cmd("RefreshArtist", "artistIds", c.artistId, r, idx)
      search == Cmd("MissingAlbumSearch", "artistIds", c.artistId, s, idx)
      fallback == Cmd("AlbumSearch", "artistIds", c.artistId, f, idx)
  IN IF ~Acked(r)
       THEN Attempt(<<refresh, Sleep(10, idx)>>, "RefreshFailed", 0, <<>>)
     ELSE IF Acked(s)
       THEN Attempt(<<refresh, Sleep(5, idx), search,
                      Sleep(SLEEP_DURATION, idx)>>,
                    "SearchAccepted", 1, <<c.artistId>>)
     ELSE IF Acked(f)
       THEN Attempt(<<refresh, Sleep(5, idx), search, fallback,
                      Sleep(SLEEP_DURATION, idx)>>,
                    "FallbackAccepted", 1, <<c.artistId>>)
     ELSE Attempt(<<refresh, Sleep(5, idx), search, fallback,
                    Sleep(SLEEP_DURATION, idx)>>,
                  "SearchFailed", 1, <<>>)

process_artists_missing_iterate ==
  /\ Selecting("process_artists_missing", process_artists_missing_quota_reached)
  /\ \E idx \in SelectIdx(Len(candidates), used_indices) :
       \E r, s, f \in Responses :
         ApplyAttempt(idx,
           process_artists_missing_workflow(candidates[idx + 1], idx, r, s, f))
  /\ IterateFrame

\* Variant: `return newly_processed`.
process_artists_missing_exit_newly_only ==
  Exit("process_artists_missing", process_artists_missing_quota_reached,
       ListValue(newly_processed))

\* break; return processed_artists + newly_processed
process_artists_missing_exit ==
  Exit("process_artists_missing", process_artists_missing_quota_reached,
       ListValue(processed_artists \o newly_processed))

\* ============================================================================
\* missing/album.py  process_albums_missing()
\* ============================================================================
process_albums_missing_start ==
  /\ pass = "process_albums_missing" /\ phase = "call"
  /\ \/ /\ HUNT_MISSING_ITEMS <= 0
        /\ Return(NoneValue, <<>>)
     \/ /\ HUNT_MISSING_ITEMS > 0
        /\ \E ok \in BOOLEAN :
             IF Collected(ok) = 0
               \* no artist data, or no incomplete album: 60s wait
               THEN Return(NoneValue, <<Get("collect", ok), Sleep(60, -1)>>)
               ELSE EnterLoop(LeafCandidates(Collected(ok)),
                              <<Get("collect", ok)>>)
  /\ UNCHANGED <<upstream, pass, processed_artists, newly_processed, page, records,
                 indices, attempts>>
  /\ UNCHANGED <<cfgVars, mainVars>>

\* `if HUNT_MISSING_ITEMS > 0 and processed_count >= HUNT_MISSING_ITEMS: break`
process_albums_missing_quota_reached ==
  HUNT_MISSING_ITEMS > 0 /\ processed_count >= HUNT_MISSING_ITEMS

\* refresh -> AlbumSearch by album; no fallback is posted
process_albums_missing_workflow(c, idx, r, s, f) ==
  LET refresh == Cmd("RefreshArtist", "artistIds", c.artistId, r, idx)
      search == Cmd("AlbumSearch", "albumIds", c.albumId, s, idx)
  IN IF ~Acked(r)
       THEN Attempt(<<refresh, Sleep(10, idx)>>, "RefreshFailed", 0, <<>>)
     ELSE Attempt(<<refresh, Sleep(5, idx), search,
                    Sleep(SLEEP_DURATION, idx)>>,
                  IF Acked(s) THEN "SearchAccepted" ELSE "SearchFailed",
                  1, <<>>)

process_albums_missing_iterate ==
  /\ Selecting("process_albums_missing", process_albums_missing_quota_reached)
  /\ \E idx \in SelectIdx(Len(candidates), used_indices) :
       \E r, s, f \in Responses :
         ApplyAttempt(idx,
           process_albums_missing_workflow(candidates[idx + 1], idx, r, s, f))
  /\ IterateFrame

process_albums_missing_exit ==
  Exit("process_albums_missing", process_albums_missing_quota_reached,
       NoneValue)

\* ============================================================================
\* upgrade/album.py  process_album_upgrades()
\* ============================================================================
process_album_upgrades_start ==
  /\ pass = "process_album_upgrades" /\ phase = "call"
  /\ \E ok \in BOOLEAN :
       IF Collected(ok) = 0
         \* no profiles, no artist data, or no album below cutoff
         THEN Return(NoneValue, <<Get("collect", ok)>>)
         ELSE EnterLoop(LeafCandidates(Collected(ok)), <<Get("collect", ok)>>)
  /\ UNCHANGED <<upstream, pass, processed_artists, newly_processed, page, records,
                 indices, attempts>>
  /\ UNCHANGED <<cfgVars, mainVars>>

\* `if MAX_ITEMS > 0 and processed_count >= MAX_ITEMS: break`
\* Variant: the test without `MAX_ITEMS > 0`.
process_album_upgrades_quota_reached_unguarded ==
  processed_count >= MAX_ITEMS

process_album_upgrades_quota_reached ==
  MAX_ITEMS > 0 /\ processed_count >= MAX_ITEMS

\* Variant: the failed refresh does not `continue`; the search is posted.
process_album_upgrades_workflow_without_continue(c, idx, r, s, f) ==
  LET refresh == Cmd("RefreshArtist", "artistIds", c.artistId, r, idx)
      search == Cmd("AlbumSearch", "albumIds", c.albumId, s, idx)
  IN IF ~Acked(r)
       THEN Attempt(<<refresh, Sleep(10, idx), search,
                      Sleep(SLEEP_DURATION, idx)>>,
                    "RefreshFailed", 0, <<>>)
     ELSE IF Acked(s)
       THEN Attempt(<<refresh, Sleep(5, idx), search,
                      Sleep(SLEEP_DURATION, idx)>>,
                    "SearchAccepted", 1, <<>>)
     ELSE Attempt(<<refresh, Sleep(5, idx), search, Sleep(10, idx),
                    Sleep(SLEEP_DURATION, idx)>>,
                  "SearchFailed", 0, <<>>)

\* refresh -> AlbumSearch by album; counted only when acknowledged
process_album_upgrades_workflow(c, idx, r, s, f) ==
  LET refresh == Cmd("RefreshArtist", "artistIds", c.artistId, r, idx)
      search == Cmd("AlbumSearch", "albumIds", c.albumId, s, idx)
  IN IF ~Acked(r)
       THEN Attempt(<<refresh, Sleep(10, idx)>>, "RefreshFailed", 0, <<>>)
     ELSE IF Acked(s)
       THEN Attempt(<<refresh, Sleep(5, idx), search,
                      Sleep(SLEEP_DURATION, idx)>>,
                    "SearchAccepted", 1, <<>>)
     ELSE Attempt(<<refresh, Sleep(5, idx), search, Sleep(10, idx),
                    Sleep(SLEEP_DURATION, idx)>>,
                  "SearchFailed", 0, <<>>)

process_album_upgrades_iterate ==
  /\ Selecting("process_album_upgrades", process_album_upgrades_quota_reached)
  /\ \E idx \in SelectIdx(Len(candidates), used_indices) :
       \E r, s, f \in Responses :
         ApplyAttempt(idx,
           process_album_upgrades_workflow(candidates[idx + 1], idx, r, s, f))
  /\ IterateFrame

process_album_upgrades_exit ==
  Exit("process_album_upgrades", process_album_upgrades_quota_reached,
       NoneValue)

\* ============================================================================
\* upgrade/track.py  process_cutoff_upgrades()
\* ============================================================================
process_cutoff_upgrades_start ==
  /\ pass = "process_cutoff_upgrades" /\ phase = "call"
  /\ \E ok \in BOOLEAN :
       IF Collected(ok) = 0
         \* no profiles, no artist data, or no track below cutoff
         THEN Return(NoneValue, <<Get("collect", ok)>>)
         ELSE EnterLoop(LeafCandidates(Collected(ok)), <<Get("collect", ok)>>)
  /\ UNCHANGED <<upstream, pass, processed_artists, newly_processed, page, records,
                 indices, attempts>>
  /\ UNCHANGED <<cfgVars, mainVars>>

\* `if MAX_ITEMS > 0 and processed_count >= MAX_ITEMS: break`
\* Variant: the test without `MAX_ITEMS > 0`.
process_cutoff_upgrades_quota_reached_unguarded ==
  processed_count >= MAX_ITEMS

process_cutoff_upgrades_quota_reached ==
  MAX_ITEMS > 0 /\ processed_count >= MAX_ITEMS

\* refresh -> TrackSearch; counted only when acknowledged
process_cutoff_upgrades_workflow(c, idx, r, s, f) ==
  LET refresh == Cmd("RefreshArtist", "artistIds", c.artistId, r, idx)
      search == Cmd("TrackSearch", "trackIds", c.trackId, s, idx)
  IN IF ~Acked(r)
       THEN Attempt(<<refresh, Sleep(10, idx)>>, "RefreshFailed", 0, <<>>)
     ELSE IF Acked(s)
       THEN Attempt(<<refresh, Sleep(5, idx), search,
                      Sleep(SLEEP_DURATION, idx)>>,
                    "SearchAccepted", 1, <<>>)
     ELSE Attempt(<<refresh, Sleep(5, idx), search, Sleep(10, idx),
                    Sleep(SLEEP_DURATION, idx)>>,
                  "SearchFailed", 0, <<>>)

process_cutoff_upgrades_iterate ==
  /\ Selecting("process_cutoff_upgrades", process_cutoff_upgrades_quota_reached)
  /\ \E idx \in SelectIdx(Len(candidates), used_indices) :
       \E r, s, f \in Responses :
         ApplyAttempt(idx,
           process_cutoff_upgrades_workflow(candidates[idx + 1], idx, r, s, f))
  /\ IterateFrame

process_cutoff_upgrades_exit ==
  Exit("process_cutoff_upgrades", process_cutoff_upgrades_quota_reached,
       NoneValue)

\* ============================================================================
\* upgrade/artist.py  process_artist_upgrades()
\* ============================================================================
process_artist_upgrades_start ==
  /\ pass = "process_artist_upgrades" /\ phase = "call"
  /\ \E ok \in BOOLEAN :
       IF Collected(ok) = 0
         \* no artist with an album below cutoff
         THEN Return(NoneValue, <<Get("collect", ok)>>)
         ELSE EnterLoop([i \in 1..Collected(ok) |->
                          [artistId |-> i, albumId |-> 0, trackId |-> 0]],
                        <<Get("collect", ok)>>)
  /\ UNCHANGED <<upstream, pass, processed_artists, newly_processed, page, records,
                 indices, attempts>>
  /\ UNCHANGED <<cfgVars, mainVars>>

process_artist_upgrades_quota_reached ==
  MAX_ITEMS > 0 /\ processed_count >= MAX_ITEMS

\* refresh -> AlbumSearch by artist; counted only when acknowledged
process_artist_upgrades_workflow(c, idx, r, s, f) ==
  LET refresh == Cmd("RefreshArtist", "artistIds", c.artistId, r, idx)
      search == Cmd("AlbumSearch", "artistIds", c.artistId, s, idx)
  IN IF ~Acked(r)
       THEN Attempt(<<refresh, Sleep(10, idx)>>, "RefreshFailed", 0, <<>>)
     ELSE IF Acked(s)
       THEN Attempt(<<refresh, Sleep(5, idx), search,
                      Sleep(SLEEP_DURATION, idx)>>,
                    "SearchAccepted", 1, <<>>)
     ELSE Attempt(<<refresh, Sleep(5, idx), search, Sleep(10, idx),
                    Sleep(SLEEP_DURATION, idx)>>,
                  "SearchFailed", 0, <<>>)

process_artist_upgrades_iterate ==
  /\ Selecting("process_artist_upgrades", process_artist_upgrades_quota_reached)
  /\ \E idx \in SelectIdx(Len(candidates), used_indices) :
       \E r, s, f \in Responses :
         ApplyAttempt(idx,
           process_artist_upgrades_workflow(candidates[idx + 1], idx, r, s, f))
  /\ IterateFrame

process_artist_upgrades_exit ==
  Exit("process_artist_upgrades", process_artist_upgrades_quota_reached,
       NoneValue)

\* ============================================================================
\* huntarr.py  process_artists_missing()
\* ============================================================================
huntarr_process_artists_missing_start ==
  /\ pass = "huntarr.process_artists_missing" /\ phase = "call"
  /\ \E ok \in BOOLEAN :
       LET artists == get_artists_json(ok)
           incomplete_artists == IncompleteArtists(artists.body, <<>>)
       IN IF NoData(artists) \/ incomplete_artists = <<>>
            THEN Return(NoneValue, <<Get("artist", ok), Sleep(60, -1)>>)
            ELSE EnterLoop(ArtistCandidates(incomplete_artists),
                           <<Get("artist", ok)>>)
  /\ UNCHANGED <<upstream, pass, processed_artists, newly_processed, page, records,
                 indices, attempts>>
  /\ UNCHANGED <<cfgVars, mainVars>>

\* `if MAX_ITEMS > 0 and processed_count >= MAX_ITEMS: break`
\* Variant: `>` for `>=`.
huntarr_quota_reached_late ==
  MAX_ITEMS > 0 /\ processed_count > MAX_ITEMS

huntarr_quota_reached ==
  MAX_ITEMS > 0 /\ processed_count >= MAX_ITEMS

\* refresh -> MissingAlbumSearch -> fallback AlbumSearch by artist
huntarr_process_artists_missing_workflow(c, idx, r, s, f) ==
  LET refresh == Cmd("RefreshArtist", "artistIds", c.artistId, r, idx)
      search == Cmd("MissingAlbumSearch", "artistIds", c.artistId, s, idx)
      fallback == Cmd("AlbumSearch", "artistIds", c.artistId, f, idx)
  IN IF ~Acked(r)
       THEN Attempt(<<refresh, Sleep(10, idx)>>, "RefreshFailed", 0, <<>>)
     ELSE IF Acked(s)
       THEN Attempt(<<refresh, Sleep(5, idx), search,
                      Sleep(SLEEP_DURATION, idx)>>,
                    "SearchAccepted", 1, <<>>)
     ELSE Attempt(<<refresh, Sleep(5, idx), search, fallback,
                    Sleep(SLEEP_DURATION, idx)>>,
                  IF Acked(f) THEN "FallbackAccepted" ELSE "SearchFailed",
                  1, <<>>)

huntarr_process_artists_missing_iterate ==
  /\ Selecting("huntarr.process_artists_missing", huntarr_quota_reached)
  /\ \E idx \in SelectIdx(Len(candidates), used_indices) :
       \E r, s, f \in Responses :
         ApplyAttempt(idx,
           huntarr_process_artists_missing_workflow(candidates[idx + 1], idx, r, s, f))
  /\ IterateFrame

huntarr_process_artists_missing_exit ==
  Exit("huntarr.process_artists_missing", huntarr_quota_reached, NoneValue)

\* ============================================================================
\* huntarr.py  process_albums_missing()
\* ============================================================================
huntarr_process_albums_missing_start ==
  /\ pass = "huntarr.process_albums_missing" /\ phase = "call"
  /\ \E ok \in BOOLEAN :
       IF Collected(ok) = 0
         \* no artist data, or no incomplete album: 60s wait
         THEN Return(NoneValue, <<Get("collect", ok), Sleep(60, -1)>>)
         ELSE EnterLoop(LeafCandidates(Collected(ok)), <<Get("collect", ok)>>)
  /\ UNCHANGED <<upstream, pass, processed_artists, newly_processed, page, records,
                 indices, attempts>>
  /\ UNCHANGED <<cfgVars, mainVars>>

\* refresh -> AlbumSearch by album; no fallback is posted
huntarr_process_albums_missing_workflow(c, idx, r, s, f) ==
  LET refresh == Cmd("RefreshArtist", "artistIds", c.artistId, r, idx)
      search == Cmd("AlbumSearch", "albumIds", c.albumId, s, idx)
  IN IF ~Acked(r)
       THEN Attempt(<<refresh, Sleep(10, idx)>>, "RefreshFailed", 0, <<>>)
     ELSE Attempt(<<refresh, Sleep(5, idx), search,
                    Sleep(SLEEP_DURATION, idx)>>,
                  IF Acked(s) THEN "SearchAccepted" ELSE "SearchFailed",
                  1, <<>>)

huntarr_process_albums_missing_iterate ==
  /\ Selecting("huntarr.process_albums_missing", huntarr_quota_reached)
  /\ \E idx \in SelectIdx(Len(candidates), used_indices) :
       \E r, s, f \in Responses :
         ApplyAttempt(idx,
           huntarr_process_albums_missing_workflow(candidates[idx + 1], idx, r, s, f))
  /\ IterateFrame

huntarr_process_albums_missing_exit ==
  Exit("huntarr.process_albums_missing", huntarr_quota_reached, NoneValue)

\* ============================================================================
\* huntarr.py  process_songs_missing()
\* ============================================================================
huntarr_process_songs_missing_start ==
  /\ pass = "huntarr.process_songs_missing" /\ phase = "call"
  /\ \E ok \in BOOLEAN :
       IF Collected(ok) = 0
         \* no artist data, or no missing track: 60s wait
         THEN Return(NoneValue, <<Get("collect", ok), Sleep(60, -1)>>)
         ELSE EnterLoop(LeafCandidates(Collected(ok)), <<Get("collect", ok)>>)
  /\ UNCHANGED <<upstream, pass, processed_artists, newly_processed, page, records,
                 indices, attempts>>
  /\ UNCHANGED <<cfgVars, mainVars>>

\* refresh -> AlbumSearch on the track's album; no fallback is posted
huntarr_process_songs_missing_workflow(c, idx, r, s, f) ==
  LET refresh == Cmd("RefreshArtist", "artistIds", c.artistId, r, idx)
      search == Cmd("AlbumSearch", "albumIds", c.albumId, s, idx)
  IN IF ~Acked(r)
       THEN Attempt(<<refresh, Sleep(10, idx)>>, "RefreshFailed", 0, <<>>)
     ELSE Attempt(<<refresh, Sleep(5, idx), search,
                    Sleep(SLEEP_DURATION, idx)>>,
                  IF Acked(s) THEN "SearchAccepted" ELSE "SearchFailed",
                  1, <<>>)

huntarr_process_songs_missing_iterate ==
  /\ Selecting("huntarr.process_songs_missing", huntarr_quota_reached)
  /\ \E idx \in SelectIdx(Len(candidates), used_indices) :
       \E r, s, f \in Responses :
         ApplyAttempt(idx,
           huntarr_process_songs_missing_workflow(candidates[idx + 1], idx, r, s, f))
  /\ IterateFrame

huntarr_process_songs_missing_exit ==
  Exit("huntarr.process_songs_missing", huntarr_quota_reached, NoneValue)

\* ============================================================================
\* huntarr.py  process_songs_upgrade(): pages of wanted?filterKey=cutoffNotMet
\* ============================================================================
\* A record of the wanted response, as far as the loop reads it.
WantedRecords ==
  [monitored : BOOLEAN, hasArtist : BOOLEAN, hasTrack : BOOLEAN]

\* Position of record i of the current page among all records fetched.
GlobalIdx(i) == (page - 1) * pageSize + i

\* The response to the request for page `page`: failed, or the records of
\* that page among the upstream.n records below cutoff.
WantedRead(ok) ==
  LET before == (page - 1) * pageSize
      left == IF upstream.n > before THEN upstream.n - before ELSE 0
  IN [ok |-> ok, n |-> IF ok THEN MinOf(pageSize, left) ELSE 0]

huntarr_process_songs_upgrade_start ==
  /\ pass = "huntarr.process_songs_upgrade" /\ phase = "call"
  /\ phase' = "page"
  /\ page' = 1
  /\ processed_count' = 0
  /\ UNCHANGED <<upstream, pass, processed_artists, candidates, used_indices,
                 newly_processed, records, indices, ret, log, attempts>>
  /\ UNCHANGED <<cfgVars, mainVars>>

\* Top of `while True:`: the quota test, the page request, the shuffle.
huntarr_process_songs_upgrade_fetch ==
  /\ pass = "huntarr.process_songs_upgrade" /\ phase = "page"
  /\ IF huntarr_quota_reached
       THEN /\ phase' = "returned" /\ ret' = NoneValue
            /\ UNCHANGED <<records, indices, log>>
       ELSE \E ok \in BOOLEAN :
              LET resp == WantedRead(ok)
              IN /\ log' = Append(log, Get("wanted", ok))
                 /\ IF ~resp.ok \/ resp.n = 0
                      THEN /\ phase' = "returned" /\ ret' = NoneValue
                           /\ UNCHANGED <<records, indices>>
                      ELSE /\ phase' = "loop"
                           /\ records' = resp.n
                           /\ indices' = 0..(resp.n - 1)
                           /\ UNCHANGED ret
  /\ UNCHANGED <<upstream, pass, processed_artists, candidates, used_indices,
                 processed_count, newly_processed, page, attempts>>
  /\ UNCHANGED <<cfgVars, mainVars>>

\* The order `for i in indices` visits the page in: shuffled or ascending.
NextIndex(remaining) ==
  IF RANDOM_SELECTION THEN remaining ELSE {Min(remaining)}

\* Body of the for loop for one record.
huntarr_process_songs_upgrade_workflow(rec, idx, r, s) ==
  LET artist_id == LeafCandidate(idx + 1).artistId
      track_id == LeafCandidate(idx + 1).trackId
      refresh == Cmd("RefreshArtist", "artistIds", artist_id, r, idx)
      search == Cmd("TrackSearch", "trackIds", track_id, s, idx)
      refreshed == IF rec.hasArtist THEN <<refresh, Sleep(5, idx)>> ELSE <<>>
  IN IF MONITORED_ONLY /\ ~rec.monitored
       THEN Attempt(<<>>, "SkippedUnmonitored", 0, <<>>)
     ELSE IF rec.hasArtist /\ ~Acked(r)
       THEN Attempt(<<refresh, Sleep(10, idx)>>, "RefreshFailed", 0, <<>>)
     ELSE IF ~rec.hasTrack
       THEN Attempt(refreshed \o <<Sleep(SLEEP_DURATION, idx)>>,
                    "NoTrackId", 0, <<>>)
     ELSE IF Acked(s)
       THEN Attempt(refreshed \o <<search, Sleep(SLEEP_DURATION, idx)>>,
                    "SearchAccepted", 1, <<>>)
     ELSE Attempt(refreshed \o <<search, Sleep(10, idx),
                                 Sleep(SLEEP_DURATION, idx)>>,
                  "SearchFailed", 0, <<>>)

huntarr_process_songs_upgrade_item ==
  /\ pass = "huntarr.process_songs_upgrade" /\ phase = "loop"
  /\ indices # {}
  /\ ~huntarr_quota_reached
  /\ \E i \in NextIndex(indices) :
       /\ indices' = indices \ {i}
       /\ \E rec \in WantedRecords : \E r, s \in Responses :
            LET w == huntarr_process_songs_upgrade_workflow(
                       rec, GlobalIdx(i), r, s)
            IN /\ processed_count' = processed_count + w.count
               /\ log' = log \o w.entries
               /\ attempts' = Append(attempts, [idx |-> GlobalIdx(i),
                                                result |-> w.result])
  /\ UNCHANGED <<upstream, pass, phase, processed_artists, candidates, used_indices,
                 newly_processed, page, records, ret>>
  /\ UNCHANGED <<cfgVars, mainVars>>

\* End of the for loop (exhausted or quota break) and the page test.
huntarr_process_songs_upgrade_page_end ==
  /\ pass = "huntarr.process_songs_upgrade" /\ phase = "loop"
  /\ indices = {} \/ huntarr_quota_reached
  /\ IF records < pageSize
       THEN /\ phase' = "returned" /\ ret' = NoneValue /\ page' = page
       ELSE /\ phase' = "page" /\ page' = page + 1 /\ UNCHANGED ret
  /\ UNCHANGED <<upstream, pass, processed_artists, candidates, used_indices,
                 processed_count, newly_processed, records, indices, log,
                 attempts>>
  /\ UNCHANGED <<cfgVars, mainVars>>

\* ============================================================================
\* One pass run on its own
\* ============================================================================
MissingPasses == {"process_artists_missing", "process_albums_missing"}

UpgradePasses == {"process_album_upgrades", "process_cutoff_upgrades",
                  "process_artist_upgrades"}

LegacyPasses == {"huntarr.process_artists_missing",
                 "huntarr.process_albums_missing",
                 "huntarr.process_songs_missing",
                 "huntarr.process_songs_upgrade"}

ArtistMissingPasses == {"process_artists_missing",
                        "huntarr.process_artists_missing"}

Passes == MissingPasses \cup UpgradePasses \cup LegacyPasses

Quotas == -1..MaxQuota

IdleMain ==
  /\ pc = "idle"
  /\ state = [processed_artists |-> <<>>, processed_albums |-> <<>>,
              last_reset_time |-> [kind |-> "datetime", t |-> 0]]
  /\ stateFile = [kind |-> "missing", processed_artists |-> <<>>,
                  processed_albums |-> <<>>,
                  last_reset_time |-> [kind |-> "str", t |-> 0]]
  /\ now = 0
  /\ processing_done = FALSE
  /\ pre = state

InitPass ==
  /\ pass \in Passes
  /\ phase = "call"
  /\ upstream \in
       IF pass \in ArtistMissingPasses
         THEN {[artists |-> a, n |-> 0] : a \in ArtistLists}
         ELSE {[artists |-> <<>>, n |-> n] : n \in 0..MaxN}
  /\ \E q \in Quotas :
       /\ HUNT_MISSING_ITEMS = (IF pass \in MissingPasses THEN q ELSE 1)
       /\ MAX_ITEMS = (IF pass \in MissingPasses THEN 1 ELSE q)
       /\ HUNT_UPGRADE_ALBUMS = 0
  /\ RANDOM_SELECTION \in BOOLEAN
  /\ MONITORED_ONLY \in BOOLEAN
  /\ HUNT_MISSING_MODE = "artist"
  /\ STATE_RESET_INTERVAL_HOURS = 168
  /\ processed_artists \in
       (IF pass = "process_artists_missing" THEN {<<>>, <<1>>} ELSE {<<>>})
  /\ candidates = <<>>
  /\ used_indices = {}
  /\ processed_count = 0
  /\ newly_processed = <<>>
  /\ page = 0
  /\ records = 0
  /\ indices = {}
  /\ ret = NoneValue
  /\ log = <<>>
  /\ attempts = <<>>
  /\ IdleMain

NextPass ==
  \/ process_artists_missing_start
  \/ process_artists_missing_iterate
  \/ process_artists_missing_exit
  \/ process_albums_missing_start
  \/ process_albums_missing_iterate
  \/ process_albums_missing_exit
  \/ process_album_upgrades_start
  \/ process_album_upgrades_iterate
  \/ process_album_upgrades_exit
  \/ process_cutoff_upgrades_start
  \/ process_cutoff_upgrades_iterate
  \/ process_cutoff_upgrades_exit
  \/ process_artist_upgrades_start
  \/ process_artist_upgrades_iterate
  \/ process_artist_upgrades_exit
  \/ huntarr_process_artists_missing_start
  \/ huntarr_process_artists_missing_iterate
  \/ huntarr_process_artists_missing_exit
  \/ huntarr_process_albums_missing_start
  \/ huntarr_process_albums_missing_iterate
  \/ huntarr_process_albums_missing_exit
  \/ huntarr_process_songs_missing_start
  \/ huntarr_process_songs_missing_iterate
  \/ huntarr_process_songs_missing_exit
  \/ huntarr_process_songs_upgrade_start
  \/ huntarr_process_songs_upgrade_fetch
  \/ huntarr_process_songs_upgrade_item
  \/ huntarr_process_songs_upgrade_page_end

SpecPass == InitPass /\ [][NextPass]_vars

\* ============================================================================
\* main.py: persisted state and the cycle
\* ============================================================================
\* A datetime object, and the ISO string isoformat() makes of one.
DateTime(t) == [kind |-> "datetime", t |-> t]

IsoString(t) == [kind |-> "str", t |-> t]

\* datetime.fromisoformat(s) / d.isoformat()
fromisoformat(s) == DateTime(s.t)

\* Variant: `d.date().isoformat()`, which drops the time of day.
isoformat_date_only(d) == IsoString(0)

isoformat(d) == IsoString(d.t)

NoFile == [kind |-> "missing", processed_artists |-> <<>>,
           processed_albums |-> <<>>, last_reset_time |-> IsoString(0)]

\* state.json exists but json.load or fromisoformat raises on it
CorruptFile == [kind |-> "corrupt", processed_artists |-> <<>>,
                processed_albums |-> <<>>, last_reset_time |-> IsoString(0)]

StateDict(artists, albums, last_reset) ==
  [processed_artists |-> artists, processed_albums |-> albums,
   last_reset_time |-> last_reset]

\* load_state(): the fresh dict carries last_reset_time as an ISO string,
\* the dict read from the file carries it as a datetime.
load_state ==
  IF stateFile.kind = "valid"
    THEN StateDict(stateFile.processed_artists, stateFile.processed_albums,
                   fromisoformat(stateFile.last_reset_time))
    ELSE StateDict(<<>>, <<>>, isoformat(DateTime(now)))

\* save_state(state): the file after the call.  str has no isoformat(); the
\* AttributeError is caught and the file is left as it was.
save_state(st) ==
  IF st.last_reset_time.kind = "datetime"
    THEN [kind |-> "valid", processed_artists |-> st.processed_artists,
          processed_albums |-> st.processed_albums,
          last_reset_time |-> isoformat(st.last_reset_time)]
    ELSE stateFile

\* check_reset_state(state): the dict returned, or the TypeError that
\* `now - last_reset` raises when last_reset is a string.
\* Variant: only a negative interval disables the reset.
reset_disabled_when_negative == STATE_RESET_INTERVAL_HOURS < 0

\* if STATE_RESET_INTERVAL_HOURS <= 0: return state
reset_disabled == STATE_RESET_INTERVAL_HOURS <= 0

\* Variant: `>=` for `>`.
reset_due_inclusive(st) ==
  now - st.last_reset_time.t >= STATE_RESET_INTERVAL_HOURS

\* if now - last_reset > reset_interval:
reset_due(st) ==
  now - st.last_reset_time.t > STATE_RESET_INTERVAL_HOURS

check_reset_state(st) ==
  IF reset_disabled
    THEN [raised |-> FALSE, state |-> st]
  ELSE IF st.last_reset_time.kind # "datetime"
    THEN [raised |-> TRUE, state |-> st]
  ELSE IF reset_due(st)
    THEN [raised |-> FALSE, state |-> StateDict(<<>>, <<>>, DateTime(now))]
  ELSE [raised |-> FALSE, state |-> st]

\* A call of a pass function from main_loop, and its return.
CallPass(name, arg) ==
  /\ pass' = name /\ phase' = "call"
  /\ processed_artists' = arg
  /\ candidates' = <<>> /\ used_indices' = {} /\ processed_count' = 0
  /\ newly_processed' = <<>> /\ page' = 0 /\ records' = 0 /\ indices' = {}
  /\ ret' = NoneValue /\ log' = <<>> /\ attempts' = <<>>
  /\ UNCHANGED upstream

LeavePass ==
  /\ pass' = "none" /\ phase' = "idle"
  /\ processed_artists' = <<>>
  /\ candidates' = <<>> /\ used_indices' = {} /\ processed_count' = 0
  /\ newly_processed' = <<>> /\ page' = 0 /\ records' = 0 /\ indices' = {}
  /\ ret' = NoneValue /\ log' = <<>> /\ attempts' = <<>>
  /\ UNCHANGED upstream

NoPass ==
  /\ pass = "none" /\ phase = "idle"
  /\ processed_artists = <<>>
  /\ candidates = <<>> /\ used_indices = {} /\ processed_count = 0
  /\ newly_processed = <<>> /\ page = 0 /\ records = 0 /\ indices = {}
  /\ ret = NoneValue /\ log = <<>> /\ attempts = <<>>

\* state = load_state()
main_load_state ==
  /\ pc = "load_state"
  /\ state' = load_state
  /\ pre' = load_state
  /\ pc' = "check_reset_state"
  /\ UNCHANGED <<stateFile, now, processing_done>>
  /\ UNCHANGED <<cfgVars, passVars>>

\* state = check_reset_state(state); processing_done = False
main_check_reset_state ==
  /\ pc = "check_reset_state"
  /\ LET r == check_reset_state(state)
     IN IF r.raised
          THEN /\ pc' = "TypeError in check_reset_state"
               /\ UNCHANGED <<state, processing_done>>
          ELSE /\ pc' = "process_artists_missing"
               /\ state' = r.state
               /\ processing_done' = FALSE
  /\ UNCHANGED <<stateFile, now, pre>>
  /\ UNCHANGED <<cfgVars, passVars>>

\* if HUNT_MISSING_MODE in ["artist", "both"]:
\*     processed = process_artists_missing(state.get("processed_artists", []))
main_artists_missing_call ==
  /\ pc = "process_artists_missing" /\ pass = "none"
  /\ IF HUNT_MISSING_MODE \in {"artist", "both"}
       THEN /\ CallPass("process_artists_missing", state.processed_artists)
            /\ UNCHANGED pc
       ELSE /\ pc' = "process_albums_missing"
            /\ UNCHANGED passVars
  /\ UNCHANGED <<state, stateFile, now, processing_done, pre>>
  /\ UNCHANGED cfgVars

\* Variant: `state["processed_artists"] += processed`.
main_artists_missing_return_extending ==
  /\ pc = "process_artists_missing"
  /\ pass = "process_artists_missing" /\ phase = "returned"
  /\ IF ret.list # <<>>
       THEN /\ state' = [state EXCEPT !.processed_artists = @ \o ret.list]
            /\ processing_done' = TRUE
       ELSE UNCHANGED <<state, processing_done>>
  /\ pc' = "process_albums_missing"
  /\ LeavePass
  /\ UNCHANGED <<stateFile, now, pre>>
  /\ UNCHANGED cfgVars

\* if processed: state["processed_artists"] = processed; processing_done = True
main_artists_missing_return ==
  /\ pc = "process_artists_missing"
  /\ pass = "process_artists_missing" /\ phase = "returned"
  /\ IF ret.list # <<>>
       THEN /\ state' = [state EXCEPT !.processed_artists = ret.list]
            /\ processing_done' = TRUE
       ELSE UNCHANGED <<state, processing_done>>
  /\ pc' = "process_albums_missing"
  /\ LeavePass
  /\ UNCHANGED <<stateFile, now, pre>>
  /\ UNCHANGED cfgVars

\* if HUNT_MISSING_MODE in ["album", "both"]:
\*     processed = process_albums_missing(state.get("processed_albums", []))
\* process_albums_missing() takes no argument: the call raises TypeError.
main_albums_missing ==
  /\ pc = "process_albums_missing"
  /\ pc' = IF HUNT_MISSING_MODE \in {"album", "both"}
             THEN "TypeError in process_albums_missing"
             ELSE "process_album_upgrades"
  /\ UNCHANGED <<state, stateFile, now, processing_done, pre>>
  /\ UNCHANGED <<cfgVars, passVars>>

\* if process_album_upgrades():
main_album_upgrades_call ==
  /\ pc = "process_album_upgrades" /\ pass = "none"
  /\ CallPass("process_album_upgrades", <<>>)
  /\ UNCHANGED mainVars
  /\ UNCHANGED cfgVars

\* Variant: the upgrade branch empties the processed lists.
main_album_upgrades_return_clearing ==
  /\ pc = "process_album_upgrades"
  /\ pass = "process_album_upgrades" /\ phase = "returned"
  /\ processing_done' = (processing_done \/ ~ret.none)
  /\ state' = [state EXCEPT !.processed_artists = <<>>,
                            !.processed_albums = <<>>]
  /\ pc' = "save_state"
  /\ LeavePass
  /\ UNCHANGED <<stateFile, now, pre>>
  /\ UNCHANGED cfgVars

\*     processing_done = True    (the function returns None)
main_album_upgrades_return ==
  /\ pc = "process_album_upgrades"
  /\ pass = "process_album_upgrades" /\ phase = "returned"
  /\ processing_done' = (processing_done \/ ~ret.none)
  /\ pc' = "save_state"
  /\ LeavePass
  /\ UNCHANGED <<state, stateFile, now, pre>>
  /\ UNCHANGED cfgVars

\* save_state(state)
main_save_state ==
  /\ pc = "save_state"
  /\ stateFile' = save_state(state)
  /\ pc' = "sleep"
  /\ UNCHANGED <<state, now, processing_done, pre>>
  /\ UNCHANGED <<cfgVars, passVars>>

\* time.sleep(60) if processing_done else time.sleep(10); the clock has
\* advanced by some hours when the next cycle starts.
main_sleep ==
  /\ pc = "sleep"
  /\ log' = <<Sleep(IF processing_done THEN 60 ELSE 10, -1)>>
  /\ \E t \in now..MaxTime : now' = t
  /\ pc' = "load_state"
  /\ UNCHANGED <<state, stateFile, processing_done, pre>>
  /\ UNCHANGED <<upstream, pass, phase, processed_artists, candidates,
                 used_indices, processed_count, newly_processed, page,
                 records, indices, ret, attempts>>
  /\ UNCHANGED cfgVars

\* The state files a start may find: none, an unreadable one, or one an
\* earlier run saved.
StateFiles ==
  {NoFile, CorruptFile} \cup
  {[kind |-> "valid", processed_artists |-> a, processed_albums |-> b,
    last_reset_time |-> IsoString(0)] :
     a \in {<<>>, <<1>>}, b \in {<<>>, <<11>>}}

\* The libraries the cycle is explored with: up to MaxN - 1 monitored artists.
CycleUpstreams ==
  {[artists |-> a, n |-> n] :
     a \in {l \in ArtistLists :
              /\ Len(l) < MaxN
              /\ \A i \in 1..Len(l) : l[i].monitored},
     n \in 0..1}

InitCycle ==
  /\ HUNT_MISSING_ITEMS = 1
  /\ MAX_ITEMS = 1
  /\ HUNT_UPGRADE_ALBUMS \in {0, 1}
  /\ RANDOM_SELECTION = TRUE
  /\ MONITORED_ONLY = TRUE
  /\ HUNT_MISSING_MODE \in {"artist", "album", "both", "song"}
  /\ STATE_RESET_INTERVAL_HOURS \in -1..2
  /\ upstream \in CycleUpstreams
  /\ NoPass
  /\ pc = "load_state"
  /\ stateFile \in StateFiles
  /\ now = 0
  /\ state = StateDict(<<>>, <<>>, DateTime(0))
  /\ pre = state
  /\ processing_done = FALSE

NextCycle ==
  \/ main_load_state
  \/ main_check_reset_state
  \/ main_artists_missing_call
  \/ process_artists_missing_start
  \/ process_artists_missing_iterate
  \/ process_artists_missing_exit
  \/ main_artists_missing_return
  \/ main_albums_missing
  \/ main_album_upgrades_call
  \/ process_album_upgrades_start
  \/ process_album_upgrades_iterate
  \/ process_album_upgrades_exit
  \/ main_album_upgrades_return
  \/ main_save_state
  \/ main_sleep

SpecCycle == InitCycle /\ [][NextCycle]_vars

\* ============================================================================
\* Properties of the selection passes
\* ============================================================================
IndexPasses == Passes \ {"huntarr.process_songs_upgrade"}

\* The quota the running pass reads.
PassQuota == IF pass \in MissingPasses THEN HUNT_MISSING_ITEMS ELSE MAX_ITEMS

\* N: the candidates the library holds for the running pass.
PassN ==
  CASE pass = "process_artists_missing" ->
         Len(IncompleteArtists(upstream.artists, processed_artists))
    [] pass = "huntarr.process_artists_missing" ->
         Len(IncompleteArtists(upstream.artists, <<>>))
    [] OTHER -> upstream.n

\* min(Q, N) for Q > 0, N for an unbounded quota
QuotaOrAll(q, n) == IF q > 0 THEN MinOf(q, n) ELSE n

\* The indices selected so far, in order and as a set.
Picks == [k \in 1..Len(attempts) |-> attempts[k].idx]

Selected == {attempts[k].idx : k \in 1..Len(attempts)}

LogAt(i) == {k \in 1..Len(log) : log[k].idx = i}

Posted == {k \in 1..Len(log) : log[k].cmd \notin {"sleep", "GET"}}

ReadsOk == \A k \in 1..Len(log) : log[k].cmd = "GET" => log[k].ack

RefreshUnacked ==
  {k \in 1..Len(log) : log[k].cmd = "RefreshArtist" /\ ~log[k].ack}

SearchAcked(i) == \E k \in LogAt(i) : IsSearch(log[k]) /\ log[k].ack

ResultOf(i) ==
  (CHOOSE a \in Range(attempts) : a.idx = i).result

Success(result) == result \in {"SearchAccepted", "FallbackAccepted"}

\* C1: when a pass over N candidates with quota Q ends, processed_count is at
\* most min(Q, N) if Q > 0 and at most N otherwise, whatever the responses;
\* in the paginated pass N counts the records of all pages.
C1_QuotaBound ==
  phase = "returned" => processed_count <= QuotaOrAll(PassQuota, PassN)

\* the paginated pass reaches its quota on the second page, after an
\* unacknowledged command on the first
C1_Witness ==
  /\ pass = "huntarr.process_songs_upgrade" /\ phase = "returned"
  /\ MAX_ITEMS = 1 /\ processed_count = 1 /\ page = 3 /\ upstream.n = 3
  /\ \E k \in Posted : ~log[k].ack

\* C2: within one pass no index is selected twice, and every selecting
\* iteration adds exactly one new index to used_indices, whatever the outcome
\* of its workflow.
C2_NoReselection ==
  /\ \A i, j \in 1..Len(attempts) : i # j => attempts[i].idx # attempts[j].idx
  /\ pass \in IndexPasses =>
       /\ used_indices = Selected
       /\ Cardinality(used_indices) = Len(attempts)

\* three selections in random order ending in the three outcomes
C2_Witness ==
  /\ pass = "process_cutoff_upgrades" /\ RANDOM_SELECTION
  /\ Len(attempts) = 3 /\ attempts[1].idx = 2
  /\ {attempts[k].result : k \in 1..3} =
       {"RefreshFailed", "SearchFailed", "SearchAccepted"}

AllAcked == \A k \in 1..Len(log) : log[k].cmd # "sleep" => log[k].ack

FirstIndices(k) == [i \in 1..k |-> i - 1]

\* min(quota, N), none when that is negative
MinQuotaN == IF MinOf(PassQuota, PassN) > 0 THEN MinOf(PassQuota, PassN) ELSE 0

\* C4 as stated: with random selection off, the candidates a pass selected
\* are the first min(quota, N) of the list, in input order.
C4_Original ==
  (~RANDOM_SELECTION /\ phase = "returned" /\ pass \in MissingPasses
     /\ ReadsOk) =>
    Picks = FirstIndices(MinQuotaN)

\* C4 amended: with random selection off, the candidates selected are always
\* a prefix of the list in input order; in the missing passes the prefix has
\* min(quota, N) items (none for quota <= 0) when every RefreshArtist is
\* acknowledged, and otherwise at least that many and at most N.
C4_SequentialPrefix ==
  /\ ~RANDOM_SELECTION => Picks = FirstIndices(Len(attempts))
  /\ (~RANDOM_SELECTION /\ phase = "returned" /\ pass \in MissingPasses
        /\ ReadsOk) =>
       /\ MinQuotaN <= Len(attempts) /\ Len(attempts) <= PassN
       /\ RefreshUnacked = {} => Len(attempts) = MinQuotaN

\* quota 1, the first refresh unacknowledged: two candidates selected
C4_Witness ==
  /\ ~RANDOM_SELECTION /\ pass = "process_albums_missing"
  /\ phase = "returned" /\ HUNT_MISSING_ITEMS = 1 /\ PassN = 3
  /\ Picks = <<0, 1>> /\ attempts[1].result = "RefreshFailed"

\* C5 as stated: processed_count is incremented for a candidate only if a
\* search command (primary or fallback) for it was acknowledged.
C5_CountsOnlyAcked ==
  processed_count <= Cardinality({i \in Selected : SearchAcked(i)})

\* C6: an unacknowledged RefreshArtist is followed by no search or fallback
\* for that candidate, the candidate stays used and is selected once, and
\* the attempt does not increment processed_count.
C6_RefreshUnacked ==
  /\ \A k \in RefreshUnacked :
       /\ \A j \in LogAt(log[k].idx) : ~IsSearch(log[j])
       /\ pass \in IndexPasses => log[k].idx \in used_indices
       /\ Cardinality({a \in 1..Len(attempts) :
                         attempts[a].idx = log[k].idx}) = 1
  /\ processed_count <=
       Cardinality(Selected \ {log[k].idx : k \in RefreshUnacked})

C6_Witness ==
  /\ pass = "process_album_upgrades" /\ phase = "returned"
  /\ RefreshUnacked # {} /\ processed_count = 1 /\ Len(attempts) = 2

\* C7: in the missing-artist pass the AlbumSearch fallback by artist is posted
\* exactly when the MissingAlbumSearch was not acknowledged, at most once per
\* candidate, and the candidate is a success (recorded as processed) iff the
\* primary or the fallback was acknowledged.
C7_ArtistFallback ==
  pass \in ArtistMissingPasses =>
    \A i \in Selected :
      LET primary == {k \in LogAt(i) : log[k].cmd = "MissingAlbumSearch"}
          fallback == {k \in LogAt(i) : log[k].cmd = "AlbumSearch"}
          acked == \E k \in primary \cup fallback : log[k].ack
      IN /\ Cardinality(fallback) <= 1
         /\ fallback # {} <=> (\E k \in primary : ~log[k].ack)
         /\ \A k \in fallback :
              /\ log[k].key = "artistIds"
              /\ log[k].id = candidates[i + 1].artistId
              /\ \E j \in primary : j < k
         /\ Success(ResultOf(i)) <=> acked
         /\ pass = "process_artists_missing" =>
              (candidates[i + 1].artistId \in Range(newly_processed) <=> acked)

C7_Witness ==
  /\ pass = "process_artists_missing" /\ phase = "returned"
  /\ {attempts[k].result : k \in 1..Len(attempts)} =
       {"FallbackAccepted", "SearchFailed"}
  /\ Len(newly_processed) = 1

AlbumPasses == {"process_albums_missing", "process_album_upgrades",
                "huntarr.process_albums_missing"}

\* C8 as stated: for an album-level candidate (album a of artist r), an
\* unacknowledged AlbumSearch{albumIds:[a]} is followed by the fallback
\* AlbumSearch{artistIds:[r]}, and the action is a success if that is
\* acknowledged.
C8_AlbumFallback ==
  pass \in AlbumPasses =>
    \A k \in 1..Len(log) :
      (log[k].cmd = "AlbumSearch" /\ log[k].key = "albumIds" /\ ~log[k].ack) =>
        \E j \in LogAt(log[k].idx) :
          /\ j > k
          /\ log[j].cmd = "AlbumSearch" /\ log[j].key = "artistIds"
          /\ log[j].id = candidates[log[k].idx + 1].artistId
          /\ log[j].ack => Success(ResultOf(log[k].idx))

\* ============================================================================
\* Properties of the reset check
\* ============================================================================
\* check_reset_state has returned and no pass has been called yet
AfterCheck == pc = "process_artists_missing" /\ pass = "none"

\* now - last_reset_time of a state dict, in hours
Elapsed(st) == now - st.last_reset_time.t

\* C9: with a reset interval > 0, after the reset check of a cycle both
\* processed lists are empty and last_reset_time equals now when
\* now - last_reset_time exceeded the interval, and the processed lists and
\* last_reset_time are those that were loaded when it did not; a check that
\* raises has changed nothing.
C9_ResetAfterInterval ==
  /\ (AfterCheck /\ STATE_RESET_INTERVAL_HOURS > 0) =>
       IF Elapsed(pre) > STATE_RESET_INTERVAL_HOURS
         THEN state = StateDict(<<>>, <<>>, DateTime(now))
         ELSE state = pre
  /\ pc = "TypeError in check_reset_state" => state = pre

\* a loaded non-empty list was cleared by the check of a later cycle
C9_Witness ==
  /\ AfterCheck
  /\ STATE_RESET_INTERVAL_HOURS > 0
  /\ Elapsed(pre) > STATE_RESET_INTERVAL_HOURS
  /\ pre.processed_artists # <<>>
  /\ state.processed_artists = <<>>
  /\ state.last_reset_time = DateTime(now)
  /\ now > 0

\* C10: with a reset interval of 0 or less the reset check returns the state
\* it was given, in every cycle and whatever time has elapsed: it clears no
\* processed list and does not advance last_reset_time.
C10_ResetDisabled ==
  [][(pc = "check_reset_state" /\ STATE_RESET_INTERVAL_HOURS <= 0) =>
       (state' = state /\ pc' = "process_artists_missing")]_vars

\* a later cycle, the longest elapsed time, a non-empty list kept
C10_Witness ==
  /\ AfterCheck
  /\ STATE_RESET_INTERVAL_HOURS <= 0
  /\ state.last_reset_time.kind = "datetime"
  /\ Elapsed(state) >= MaxTime
  /\ state.processed_artists # <<>>
  /\ state = pre

\* ============================================================================
\* Properties of the cycle
\* ============================================================================
\* every id of list a is in list b
ContainsAll(b, a) == Range(a) \subseteq Range(b)

\* the running cycle has not reset the state it loaded
NoResetInCycle == state.last_reset_time = pre.last_reset_time

\* C11: only save_state writes the state file; in a cycle without a reset
\* the lists it writes contain every id the file held at the start of the
\* cycle; and a step that removes an id from a processed list of the state
\* leaves both lists empty and last_reset_time at the current time.
C11_GrowsOrResets ==
  [][/\ pc # "save_state" => stateFile' = stateFile
     /\ (pc = "save_state" /\ NoResetInCycle) =>
          /\ ContainsAll(stateFile'.processed_artists,
                         stateFile.processed_artists)
          /\ ContainsAll(stateFile'.processed_albums,
                         stateFile.processed_albums)
     /\ (\/ ~ContainsAll(state'.processed_artists, state.processed_artists)
         \/ ~ContainsAll(state'.processed_albums, state.processed_albums)) =>
          /\ state'.processed_artists = <<>>
          /\ state'.processed_albums = <<>>
          /\ state'.last_reset_time.t = now]_vars

\* a saved list that grew over the non-empty list the cycle loaded
C11_Witness ==
  /\ pc = "sleep"
  /\ NoResetInCycle
  /\ pre.processed_artists = <<1>>
  /\ stateFile.processed_artists = <<1, 2>>
  /\ stateFile.processed_albums = pre.processed_albums

\* C12: a missing or corrupt state file does not end the process: the cycle
\* that loaded the fresh state gets past the reset check, for every reset
\* interval.
C12_FreshStateNotFatal ==
  stateFile.kind # "valid" => pc # "TypeError in check_reset_state"

\* C13: every artist id the state holds when a cycle has saved it is in the
\* processed list the next cycle loads, also when the cycle began without a
\* state file.
C13_DedupPersists ==
  pc = "sleep" =>
    ContainsAll(load_state.processed_artists, state.processed_artists)

\* The stages of a cycle in the order of main_loop, each paired with its
\* successor; the passes run while pc stays at their stage.
CycleOrder ==
  {<<"load_state", "check_reset_state">>,
   <<"check_reset_state", "process_artists_missing">>,
   <<"process_artists_missing", "process_albums_missing">>,
   <<"process_albums_missing", "process_album_upgrades">>,
   <<"process_album_upgrades", "save_state">>,
   <<"save_state", "sleep">>,
   <<"sleep", "load_state">>}

\* C14: a cycle goes through load_state, the reset check, the missing-artist
\* pass, the missing-album pass, the upgrade pass, save_state and the sleep
\* in this order, so that every cycle whose reset check has returned saves
\* the state once, after its passes.
C14_FixedOrder ==
  [][pc \notin {"load_state", "check_reset_state"} =>
       (pc' = pc \/ <<pc, pc'>> \in CycleOrder)]_vars

\* the pass whose log is held issued a search that was acknowledged
AckedSearchInLog == \E k \in 1..Len(log) : IsSearch(log[k]) /\ log[k].ack

\* C15: the end-of-cycle sleep is 60 s only when processing_done is set, and
\* a pass return sets processing_done only when that pass issued an
\* acknowledged search; a cycle whose passes did no work sleeps 10 s,
\* whatever the processed lists it loaded.
C15_IdleSleep ==
  [][/\ pc = "sleep" => log'[1].id = (IF processing_done THEN 60 ELSE 10)
     /\ (~processing_done /\ processing_done') => AckedSearchInLog]_vars

\* ============================================================================
\* The quality evaluators and the collectors
\* ============================================================================
\* JSON values as Python sees them: an int, None, a str, or a key that is
\* not there.
PyInt(n) == [type |-> "int", v |-> n]

PyNone == [type |-> "NoneType", v |-> 0]

PyStr == [type |-> "str", v |-> 0]

Absent == [type |-> "absent", v |-> 0]

\* d.get(key): None for a key that is not there
get(x) == IF x = Absent THEN PyNone ELSE x

\* d.get(key, 0)
get_or_0(x) == IF x = Absent THEN PyInt(0) ELSE x

\* `not x` for a value that is None, an int or a non-empty str
Not(x) == x.type = "NoneType" \/ (x.type = "int" /\ x.v = 0)

\* isinstance(x, int)
isinstance_int(x) == x.type = "int"

\* `profile_id in profiles`, profiles being keyed by int
InProfiles(profile_id, profiles) ==
  profile_id.type = "int" /\ profile_id.v \in DOMAIN profiles

\* `if not profile_id or profile_id not in profiles`
profile_unresolved(profile_id, profiles) ==
  Not(profile_id) \/ ~InProfiles(profile_id, profiles)

\* `isinstance(cutoff_id, int) and isinstance(current_id, int)` and then
\* `current_id < cutoff_id`
below_cutoff(current_id, cutoff_id) ==
  IF isinstance_int(cutoff_id) /\ isinstance_int(current_id)
    THEN current_id.v < cutoff_id.v
    ELSE FALSE

\* upgrade/track.py  track_needs_upgrade(track, profiles)
track_needs_upgrade(track, profiles) ==
  IF ~track.hasFile THEN FALSE
  ELSE IF profile_unresolved(get(track.qualityProfileId), profiles) THEN FALSE
  ELSE LET cutoff_id == get(profiles[track.qualityProfileId.v].cutoff)
           track_current_id == get_or_0(track.quality)
       IN below_cutoff(track_current_id, cutoff_id)

\* `track_count > track_file_count`
partly_downloaded(album) == album.trackCount > album.trackFileCount

\* Variant: the qualityCutoffNotMet flag is looked at before the profile is
\* resolved, as in the source, but the unresolved profile wins.
album_flag_set_and_profile_resolved(album, profiles) ==
  /\ album.qualityCutoffNotMet
  /\ ~profile_unresolved(get(album.qualityProfileId), profiles)

\* `if album.get("qualityCutoffNotMet", False): return True`
album_flag_set(album, profiles) == album.qualityCutoffNotMet

\* upgrade/album.py  album_needs_upgrade(album, profiles)
album_needs_upgrade(album, profiles) ==
  IF MONITORED_ONLY /\ ~album.monitored THEN FALSE
  ELSE IF ~(album.sizeOnDisk > 0) THEN FALSE
  ELSE IF partly_downloaded(album) THEN FALSE
  ELSE IF album_flag_set(album, profiles) THEN TRUE
  ELSE IF profile_unresolved(get(album.qualityProfileId), profiles) THEN FALSE
  ELSE IF album.quality = Absent THEN FALSE
  ELSE LET cutoff_id == get(profiles[album.qualityProfileId.v].cutoff)
           album_quality_id == get_or_0(album.qualityId)
       IN below_cutoff(album_quality_id, cutoff_id)

\* upgrade/artist.py  get_artist_with_upgrade_albums: the test the manual
\* scan applies to one album that passed the monitored filter
artist_album_needs_upgrade(album, profiles) ==
  IF album.qualityCutoffNotMet THEN TRUE
  ELSE IF ~(album.sizeOnDisk > 0) THEN FALSE
  ELSE IF album.trackCount # album.trackFileCount THEN FALSE
  ELSE IF profile_unresolved(get(album.qualityProfileId), profiles) THEN FALSE
  ELSE LET cutoff_id == get(profiles[album.qualityProfileId.v].cutoff)
           quality_id == IF album.quality = Absent THEN PyInt(0)
                         ELSE get_or_0(album.qualityId)
       IN below_cutoff(quality_id, cutoff_id)

\* ------------------------------------------------------------ the library
\* A track, an album and an artist as the server returns them.  Track k of
\* album j of artist i has id 100 i + 10 j + k, the album has id 10 i + j.
TrackKinds ==
  {"missing", "upgradable", "at_cutoff", "unmonitored_missing",
   "unmonitored_upgradable"}

Track(id, kind) ==
  [id |-> id,
   monitored |-> kind \notin {"unmonitored_missing", "unmonitored_upgradable"},
   hasFile |-> kind \notin {"missing", "unmonitored_missing"},
   qualityProfileId |-> PyInt(1),
   quality |-> IF kind = "at_cutoff" THEN PyInt(2) ELSE PyInt(1)]

AlbumKinds ==
  {"missing", "missing_flagged", "partial", "partial_flagged", "upgradable",
   "flagged", "at_cutoff", "unmonitored_missing", "unmonitored_flagged"}

Album(id, artistId, kind, tracks) ==
  [id |-> id,
   artistId |-> artistId,
   monitored |-> kind \notin {"unmonitored_missing", "unmonitored_flagged"},
   sizeOnDisk |-> IF kind \in {"missing", "missing_flagged",
                               "unmonitored_missing"} THEN 0 ELSE 5,
   trackCount |-> 2,
   trackFileCount |->
     IF kind \in {"missing", "missing_flagged", "unmonitored_missing"} THEN 0
     ELSE IF kind \in {"partial", "partial_flagged"} THEN 1
     ELSE 2,
   qualityCutoffNotMet |->
     kind \in {"missing_flagged", "partial_flagged", "flagged",
               "unmonitored_flagged"},
   qualityProfileId |-> PyInt(1),
   quality |-> PyStr,
   qualityId |-> IF kind \in {"flagged", "at_cutoff"} THEN PyInt(2)
                 ELSE PyInt(1),
   tracks |-> tracks,
   fetched |-> TRUE]

ArtistNode(i, kind, albums) ==
  [id |-> i,
   monitored |-> kind # "unmonitored",
   trackCount |-> 2,
   trackFileCount |-> IF kind = "complete" THEN 2 ELSE 1,
   albums |-> albums,
   fetched |-> TRUE]

\* The quality profiles of the libraries: profile 1 with cutoff 2.
LibraryProfiles == [p \in {1} |-> [cutoff |-> PyInt(2)]]

\* A library from the kinds of its artists, their albums and their tracks.
BuildLibrary(shape) ==
  [i \in 1..Len(shape) |->
     ArtistNode(i, shape[i].kind,
       [j \in 1..Len(shape[i].albums) |->
          Album(10 * i + j, i, shape[i].albums[j].kind,
            [k \in 1..Len(shape[i].albums[j].tracks) |->
               Track(100 * i + 10 * j + k, shape[i].albums[j].tracks[k])])])]

SeqsUpTo(S, n) == UNION {[1..m -> S] : m \in 0..n}

\* The collectors, by the depth of the library they walk.
ArtistLevel == {"incomplete_artists"}

TrackLevel == {"missing_tracks", "track_upgrade_candidates"}

\* The kinds of artist, album and track that a collector tells apart.
ArtistKindsOf(collector) ==
  IF collector \in {"incomplete_artists", "missing_tracks"} THEN ArtistKinds
  ELSE {"incomplete", "unmonitored"}

AlbumKindsOf(collector) ==
  IF collector = "incomplete_albums"
    THEN {"missing", "partial", "upgradable", "unmonitored_missing"}
  ELSE IF collector \in TrackLevel
    THEN {"upgradable", "unmonitored_flagged"}
    ELSE {"missing", "missing_flagged", "partial_flagged", "upgradable",
          "flagged", "at_cutoff", "unmonitored_flagged"}

TrackKindsOf(collector) ==
  IF collector = "missing_tracks"
    THEN {"missing", "upgradable", "unmonitored_missing"}
    ELSE {"upgradable", "at_cutoff", "unmonitored_upgradable"}

TrackShapes(collector) ==
  IF collector \in TrackLevel
    THEN SeqsUpTo(TrackKindsOf(collector), MaxTracks)
    ELSE {<<>>}

AlbumShapes(collector) ==
  IF collector \in ArtistLevel THEN {<<>>}
  ELSE SeqsUpTo([kind : AlbumKindsOf(collector),
                 tracks : TrackShapes(collector)], MaxAlbums)

\* The libraries a collector may read: up to MaxN artists for the
\* artist-level collector, fewer for those that walk the albums.
LibraryShapes(collector) ==
  SeqsUpTo([kind : ArtistKindsOf(collector), albums : AlbumShapes(collector)],
           IF collector \in ArtistLevel THEN MaxN ELSE MaxN - 1)

\* The library as the requests of one collection see it: the album request
\* of artist `failed`, or the track request of album `failed`, fails (0: no
\* request fails).
Unreachable(artists, failed) ==
  [i \in 1..Len(artists) |->
     IF artists[i].id = failed
       THEN [artists[i] EXCEPT !.fetched = FALSE]
       ELSE [artists[i] EXCEPT !.albums =
               [j \in 1..Len(artists[i].albums) |->
                  IF artists[i].albums[j].id = failed
                    THEN [artists[i].albums[j] EXCEPT !.fetched = FALSE]
                    ELSE artists[i].albums[j]]]]

\* `get_albums_for_artist(artist_id) or []`: None on a failed request
get_albums_for_artist(artist) ==
  IF artist.fetched THEN artist.albums ELSE <<>>

\* `get_tracks_for_album(album_id) or []`: None on a failed request
get_tracks_for_album(album) ==
  IF album.fetched THEN album.tracks ELSE <<>>

RECURSIVE Concat(_)
\* Variant: the last sub-list comes first.
Concat_last_first(ss) ==
  IF ss = <<>> THEN <<>>
  ELSE IF Len(ss) = 1 THEN ss[1]
  ELSE ss[Len(ss)] \o ss[1]

\* the lists of a list of lists, appended in order
Concat(ss) == IF ss = <<>> THEN <<>> ELSE Head(ss) \o Concat(Tail(ss))

\* A candidate as the collectors append it.
Candidate(artistId, albumId, trackId, albumCount) ==
  [artistId |-> artistId, albumId |-> albumId, trackId |-> trackId,
   albumCount |-> albumCount]

\* missing/artist.py: incomplete_artists, as candidates
incomplete_artists(artists, processed) ==
  LET found == IncompleteArtists(artists, processed)
  IN [i \in 1..Len(found) |-> Candidate(found[i].id, 0, 0, 0)]

\* Variant: a failed album request ends the collection without candidates.
incomplete_albums_or_abort(artists) ==
  IF \E i \in 1..Len(artists) : ~artists[i].fetched THEN <<>>
  ELSE Concat([i \in 1..Len(artists) |->
    IF MONITORED_ONLY /\ ~artists[i].monitored THEN <<>>
    ELSE LET albums == get_albums_for_artist(artists[i])
         IN Concat([j \in 1..Len(albums) |->
              IF MONITORED_ONLY /\ ~albums[j].monitored THEN <<>>
              ELSE IF albums[j].trackCount > albums[j].trackFileCount
                THEN <<Candidate(artists[i].id, albums[j].id, 0, 0)>>
                ELSE <<>>])])

\* missing/album.py and huntarr.py process_albums_missing: incomplete_albums
incomplete_albums(artists) ==
  Concat([i \in 1..Len(artists) |->
    IF MONITORED_ONLY /\ ~artists[i].monitored THEN <<>>
    ELSE LET albums == get_albums_for_artist(artists[i])
         IN Concat([j \in 1..Len(albums) |->
              IF MONITORED_ONLY /\ ~albums[j].monitored THEN <<>>
              ELSE IF albums[j].trackCount > albums[j].trackFileCount
                THEN <<Candidate(artists[i].id, albums[j].id, 0, 0)>>
                ELSE <<>>])])

\* huntarr.py process_songs_missing: missing_tracks
missing_tracks(artists) ==
  Concat([i \in 1..Len(artists) |->
    IF MONITORED_ONLY /\ ~artists[i].monitored THEN <<>>
    ELSE IF artists[i].trackCount <= artists[i].trackFileCount THEN <<>>
    ELSE LET albums == get_albums_for_artist(artists[i])
         IN Concat([j \in 1..Len(albums) |->
              IF MONITORED_ONLY /\ ~albums[j].monitored THEN <<>>
              ELSE LET tracks == get_tracks_for_album(albums[j])
                   IN Concat([k \in 1..Len(tracks) |->
                        IF tracks[k].hasFile THEN <<>>
                        ELSE IF MONITORED_ONLY /\ ~tracks[k].monitored
                          THEN <<>>
                          ELSE <<Candidate(artists[i].id, albums[j].id,
                                           tracks[k].id, 0)>>])])])

\* Variant: without `if MONITORED_ONLY and not track.get("monitored", False)`.
track_upgrade_candidates_without_track_filter(artists, profiles) ==
  Concat([i \in 1..Len(artists) |->
    IF MONITORED_ONLY /\ ~artists[i].monitored THEN <<>>
    ELSE LET albums == get_albums_for_artist(artists[i])
         IN Concat([j \in 1..Len(albums) |->
              IF MONITORED_ONLY /\ ~albums[j].monitored THEN <<>>
              ELSE LET tracks == get_tracks_for_album(albums[j])
                   IN Concat([k \in 1..Len(tracks) |->
                        IF track_needs_upgrade(tracks[k], profiles)
                          THEN <<Candidate(artists[i].id, albums[j].id,
                                           tracks[k].id, 0)>>
                          ELSE <<>>])])])

\* upgrade/track.py process_cutoff_upgrades: upgrade_candidates
track_upgrade_candidates(artists, profiles) ==
  Concat([i \in 1..Len(artists) |->
    IF MONITORED_ONLY /\ ~artists[i].monitored THEN <<>>
    ELSE LET albums == get_albums_for_artist(artists[i])
         IN Concat([j \in 1..Len(albums) |->
              IF MONITORED_ONLY /\ ~albums[j].monitored THEN <<>>
              ELSE LET tracks == get_tracks_for_album(albums[j])
                   IN Concat([k \in 1..Len(tracks) |->
                        IF MONITORED_ONLY /\ ~tracks[k].monitored THEN <<>>
                        ELSE IF track_needs_upgrade(tracks[k], profiles)
                          THEN <<Candidate(artists[i].id, albums[j].id,
                                           tracks[k].id, 0)>>
                          ELSE <<>>])])])

\* All albums of the library, in the order of the artists.
AllAlbums(artists) ==
  Concat([i \in 1..Len(artists) |-> artists[i].albums])

\* get_cutoff_albums(): the records of wanted/cutoff, [] when the request
\* fails; the server lists the albums it flags as below cutoff.
get_cutoff_albums(artists, ok) ==
  IF ok
    THEN SelectSeq(AllAlbums(artists), LAMBDA a : a.qualityCutoffNotMet)
    ELSE <<>>

\* lidarr_request(f"artist/{artist_id}")
artist_data(artists, artist_id) == artists[artist_id]

\* upgrade/album.py process_album_upgrades: upgrade_candidates built from
\* the wanted/cutoff records
album_upgrade_candidates_api(artists, cutoff_albums) ==
  Concat([r \in 1..Len(cutoff_albums) |->
    LET album == cutoff_albums[r]
        artist == artist_data(artists, album.artistId)
    IN IF MONITORED_ONLY /\ (~artist.monitored \/ ~album.monitored)
         THEN <<>>
         ELSE <<Candidate(album.artistId, album.id, 0, 0)>>])

\* upgrade/album.py process_album_upgrades: upgrade_candidates built by the
\* manual scan
album_upgrade_candidates_manual(artists, profiles) ==
  Concat([i \in 1..Len(artists) |->
    IF MONITORED_ONLY /\ ~artists[i].monitored THEN <<>>
    ELSE LET albums == get_albums_for_artist(artists[i])
         IN Concat([j \in 1..Len(albums) |->
              IF MONITORED_ONLY /\ ~albums[j].monitored THEN <<>>
              ELSE IF album_needs_upgrade(albums[j], profiles)
                THEN <<Candidate(artists[i].id, albums[j].id, 0, 0)>>
                ELSE <<>>])])

\* Variant: without the `else` branch of `if cutoff_albums`.
album_upgrade_candidates_without_scan(artists, profiles, ok) ==
  LET cutoff_albums == get_cutoff_albums(artists, ok)
  IN IF cutoff_albums # <<>>
       THEN album_upgrade_candidates_api(artists, cutoff_albums)
       ELSE <<>>

\* upgrade/album.py process_album_upgrades: upgrade_candidates
album_upgrade_candidates(artists, profiles, ok) ==
  LET cutoff_albums == get_cutoff_albums(artists, ok)
  IN IF cutoff_albums # <<>>
       THEN album_upgrade_candidates_api(artists, cutoff_albums)
       ELSE album_upgrade_candidates_manual(artists, profiles)

\* upgrade/artist.py get_cutoff_albums: the records grouped by artist; the
\* artists in the order of their first record
cutoff_albums_of(artist_id, cutoff_albums) ==
  SelectSeq(cutoff_albums, LAMBDA a : a.artistId = artist_id)

\* upgrade/artist.py get_artist_with_upgrade_albums: from the records
artists_with_upgrades_api(artists, cutoff_albums) ==
  Concat([i \in 1..Len(artists) |->
    LET albums == cutoff_albums_of(artists[i].id, cutoff_albums)
        all_unmonitored == \A j \in 1..Len(albums) : ~albums[j].monitored
    IN IF albums = <<>> THEN <<>>
       ELSE IF MONITORED_ONLY /\ ~artists[i].monitored THEN <<>>
       ELSE IF MONITORED_ONLY /\ all_unmonitored THEN <<>>
       ELSE <<Candidate(artists[i].id, 0, 0, Len(albums))>>])

\* upgrade/artist.py get_artist_with_upgrade_albums: the manual scan
upgrade_albums(artist, profiles) ==
  LET albums == get_albums_for_artist(artist)
  IN Concat([j \in 1..Len(albums) |->
       IF MONITORED_ONLY /\ ~albums[j].monitored THEN <<>>
       ELSE IF artist_album_needs_upgrade(albums[j], profiles)
         THEN <<albums[j]>>
         ELSE <<>>])

artists_with_upgrades_manual(artists, profiles) ==
  Concat([i \in 1..Len(artists) |->
    IF MONITORED_ONLY /\ ~artists[i].monitored THEN <<>>
    ELSE IF upgrade_albums(artists[i], profiles) # <<>>
      THEN <<Candidate(artists[i].id, 0, 0,
                       Len(upgrade_albums(artists[i], profiles)))>>
      ELSE <<>>])

get_artist_with_upgrade_albums(artists, profiles, ok) ==
  LET cutoff_albums == get_cutoff_albums(artists, ok)
  IN IF cutoff_albums # <<>>
       THEN artists_with_upgrades_api(artists, cutoff_albums)
       ELSE artists_with_upgrades_manual(artists, profiles)

\* ------------------------------------------------- the collectors, run alone
Collectors ==
  {"incomplete_artists", "incomplete_albums", "missing_tracks",
   "track_upgrade_candidates", "album_upgrade_candidates",
   "get_artist_with_upgrade_albums"}

Libraries(collector) ==
  {BuildLibrary(shape) : shape \in LibraryShapes(collector)}

\* The processed lists the artist collector may be handed.
ProcessedLists == {<<>>, <<1>>, <<2, 1>>}

Collecting(collector) ==
  /\ pass = collector
  /\ phase = "call"

\* The album or track request that fails in a collection, 0 for none: one
\* of the requests the collector sends for a non-empty list.
FetchFailures(artists) ==
  {0}
  \cup {artists[i].id : i \in {k \in 1..Len(artists) :
            /\ artists[k].albums # <<>>
            /\ MONITORED_ONLY => artists[k].monitored}}
  \cup UNION {{artists[i].albums[j].id :
                 j \in {k \in 1..Len(artists[i].albums) :
                   /\ artists[i].albums[k].tracks # <<>>
                   /\ MONITORED_ONLY => /\ artists[i].monitored
                                        /\ artists[i].albums[k].monitored}}
              : i \in 1..Len(artists)}

\* The album or track request that failed, as recorded in the log.
Fetch(failed) ==
  [cmd |-> "GET", key |-> "album or track", id |-> failed,
   ack |-> failed = 0, idx |-> -1]

Collect(found, reads) ==
  /\ candidates' = found
  /\ log' = reads
  /\ phase' = "collected"
  /\ UNCHANGED <<cfgVars, mainVars, upstream, pass, processed_artists,
                 used_indices, processed_count, newly_processed, page,
                 records, indices, ret, attempts>>

collect_incomplete_artists ==
  /\ Collecting("incomplete_artists")
  /\ Collect(incomplete_artists(upstream.artists, processed_artists),
             <<Get("artist", TRUE), Fetch(0)>>)

collect_incomplete_albums ==
  /\ Collecting("incomplete_albums")
  /\ \E failed \in FetchFailures(upstream.artists) :
       Collect(incomplete_albums(Unreachable(upstream.artists, failed)),
               <<Get("artist", TRUE), Fetch(failed)>>)

collect_missing_tracks ==
  /\ Collecting("missing_tracks")
  /\ \E failed \in FetchFailures(upstream.artists) :
       Collect(missing_tracks(Unreachable(upstream.artists, failed)),
               <<Get("artist", TRUE), Fetch(failed)>>)

collect_track_upgrade_candidates ==
  /\ Collecting("track_upgrade_candidates")
  /\ \E failed \in FetchFailures(upstream.artists) :
       Collect(track_upgrade_candidates(
                 Unreachable(upstream.artists, failed), upstream.profiles),
               <<Get("qualityprofile", TRUE), Fetch(failed)>>)

\* the manual scan alone sends album requests
collect_album_upgrade_candidates ==
  /\ Collecting("album_upgrade_candidates")
  /\ \E ok \in BOOLEAN :
       \E failed \in
            (IF get_cutoff_albums(upstream.artists, ok) # <<>> THEN {0}
             ELSE FetchFailures(upstream.artists)) :
         Collect(album_upgrade_candidates(
                   Unreachable(upstream.artists, failed),
                   upstream.profiles, ok),
                 <<Get("wanted/cutoff", ok), Fetch(failed)>>)

collect_artists_with_upgrade_albums ==
  /\ Collecting("get_artist_with_upgrade_albums")
  /\ \E ok \in BOOLEAN :
       \E failed \in
            (IF get_cutoff_albums(upstream.artists, ok) # <<>> THEN {0}
             ELSE FetchFailures(upstream.artists)) :
         Collect(get_artist_with_upgrade_albums(
                   Unreachable(upstream.artists, failed),
                   upstream.profiles, ok),
                 <<Get("wanted/cutoff", ok), Fetch(failed)>>)

InitCollect ==
  /\ pass \in Collectors
  /\ phase = "call"
  /\ upstream \in {[artists |-> l, n |-> 0, profiles |-> LibraryProfiles]
                   : l \in Libraries(pass)}
  /\ HUNT_MISSING_ITEMS = 1
  /\ MAX_ITEMS = 1
  /\ HUNT_UPGRADE_ALBUMS = 0
  /\ RANDOM_SELECTION = TRUE
  /\ MONITORED_ONLY \in BOOLEAN
  /\ HUNT_MISSING_MODE = "artist"
  /\ STATE_RESET_INTERVAL_HOURS = 168
  /\ processed_artists \in
       (IF pass = "incomplete_artists" THEN ProcessedLists ELSE {<<>>})
  /\ candidates = <<>>
  /\ used_indices = {}
  /\ processed_count = 0
  /\ newly_processed = <<>>
  /\ page = 0
  /\ records = 0
  /\ indices = {}
  /\ ret = NoneValue
  /\ log = <<>>
  /\ attempts = <<>>
  /\ IdleMain

NextCollect ==
  \/ collect_incomplete_artists
  \/ collect_incomplete_albums
  \/ collect_missing_tracks
  \/ collect_track_upgrade_candidates
  \/ collect_album_upgrade_candidates
  \/ collect_artists_with_upgrade_albums

SpecCollect == InitCollect /\ [][NextCollect]_vars

\* ------------------------------------------------ the evaluators, run alone
Evaluators ==
  {"track_needs_upgrade", "album_needs_upgrade", "artist_album_needs_upgrade"}

ProfileIds == {Absent, PyInt(0), PyInt(1), PyInt(2)}

QualityIds == {Absent, PyStr} \cup {PyInt(q) : q \in 1..MaxQuality}

\* get_quality_profiles(): a dict keyed by every id that is not None
ProfileDicts ==
  UNION {[D -> [cutoff : QualityIds]] : D \in {{}, {1}, {0, 1}}}

EvalTracks ==
  [id : {1}, monitored : {TRUE}, hasFile : BOOLEAN,
   qualityProfileId : ProfileIds, quality : QualityIds]

EvalAlbums ==
  [id : {1}, artistId : {1}, monitored : BOOLEAN, sizeOnDisk : {0, 5},
   trackCount : {2}, trackFileCount : {1, 2}, qualityCutoffNotMet : BOOLEAN,
   qualityProfileId : ProfileIds, quality : {Absent, PyStr},
   qualityId : QualityIds, tracks : {<<>>}]

BoolValue(b) == [none |-> FALSE, list |-> <<>>, bool |-> b]

Evaluate(evaluator, value) ==
  /\ pass = evaluator
  /\ phase = "call"
  /\ ret' = BoolValue(value)
  /\ phase' = "returned"
  /\ UNCHANGED <<cfgVars, mainVars, upstream, pass, processed_artists,
                 candidates, used_indices, processed_count, newly_processed,
                 page, records, indices, log, attempts>>

eval_track_needs_upgrade ==
  Evaluate("track_needs_upgrade",
           track_needs_upgrade(upstream.item, upstream.profiles))

eval_album_needs_upgrade ==
  Evaluate("album_needs_upgrade",
           album_needs_upgrade(upstream.item, upstream.profiles))

eval_artist_album_needs_upgrade ==
  Evaluate("artist_album_needs_upgrade",
           artist_album_needs_upgrade(upstream.item, upstream.profiles))

InitEval ==
  /\ pass \in Evaluators
  /\ phase = "call"
  /\ upstream \in {[artists |-> <<>>, n |-> 0, item |-> i, profiles |-> p]
                   : i \in (IF pass = "track_needs_upgrade" THEN EvalTracks
                            ELSE EvalAlbums),
                     p \in ProfileDicts}
  /\ HUNT_MISSING_ITEMS = 1
  /\ MAX_ITEMS = 1
  /\ HUNT_UPGRADE_ALBUMS = 0
  /\ RANDOM_SELECTION = TRUE
  /\ MONITORED_ONLY \in BOOLEAN
  /\ HUNT_MISSING_MODE = "artist"
  /\ STATE_RESET_INTERVAL_HOURS = 168
  /\ processed_artists = <<>>
  /\ candidates = <<>>
  /\ used_indices = {}
  /\ processed_count = 0
  /\ newly_processed = <<>>
  /\ page = 0
  /\ records = 0
  /\ indices = {}
  /\ ret = NoneValue
  /\ log = <<>>
  /\ attempts = <<>>
  /\ IdleMain

NextEval ==
  \/ eval_track_needs_upgrade
  \/ eval_album_needs_upgrade
  \/ eval_artist_album_needs_upgrade

SpecEval == InitEval /\ [][NextEval]_vars

\* ============================================================================
\* Properties of the collectors
\* ============================================================================
\* The artist, the album and the track a candidate names.
ArtistOf(c) == upstream.artists[c.artistId]

AlbumOf(c) == ArtistOf(c).albums[c.albumId - 10 * c.artistId]

TrackOf(c) == AlbumOf(c).tracks[c.trackId - 10 * c.albumId]

\* The library with every monitored flag set.
AllMonitored(artists) ==
  [i \in 1..Len(artists) |->
     [artists[i] EXCEPT
        !.monitored = TRUE,
        !.albums = [j \in 1..Len(artists[i].albums) |->
           [artists[i].albums[j] EXCEPT
              !.monitored = TRUE,
              !.tracks = [k \in 1..Len(artists[i].albums[j].tracks) |->
                 [artists[i].albums[j].tracks[k] EXCEPT
                    !.monitored = TRUE]]]]]]

\* The album or track request that failed in the collection, 0 for none.
FailedFetch == log[Len(log)].id

\* What the collector of the state finds in a library all of whose album
\* and track requests succeed, its wanted/cutoff request answered as in the
\* state.
FoundIn(artists) ==
  CASE pass = "incomplete_artists" ->
         incomplete_artists(artists, processed_artists)
    [] pass = "incomplete_albums" -> incomplete_albums(artists)
    [] pass = "missing_tracks" -> missing_tracks(artists)
    [] pass = "track_upgrade_candidates" ->
         track_upgrade_candidates(artists, upstream.profiles)
    [] pass = "album_upgrade_candidates" ->
         album_upgrade_candidates(artists, upstream.profiles, log[1].ack)
    [] pass = "get_artist_with_upgrade_albums" ->
         get_artist_with_upgrade_albums(artists, upstream.profiles,
                                        log[1].ack)

\* The same with the requests failing as in the state.
Found(artists) == FoundIn(Unreachable(artists, FailedFetch))

\* C16: with MONITORED_ONLY enabled every candidate of every collector
\* belongs to a monitored artist, every album-level or track-level candidate
\* to a monitored album, and every track-level candidate is a monitored
\* track; with MONITORED_ONLY disabled the candidate list is the one the
\* collector finds when every monitored flag is set, so the flags do not
\* change it.
C16_MonitoredFilter ==
  phase = "collected" =>
    /\ MONITORED_ONLY =>
         \A n \in 1..Len(candidates) :
           /\ ArtistOf(candidates[n]).monitored
           /\ candidates[n].albumId # 0 => AlbumOf(candidates[n]).monitored
           /\ candidates[n].trackId # 0 => TrackOf(candidates[n]).monitored
    /\ ~MONITORED_ONLY =>
         candidates = Found(AllMonitored(upstream.artists))

\* An unmonitored track below its cutoff is left out, the monitored one of
\* the next artist is the only candidate.
C16_Witness ==
  /\ phase = "collected"
  /\ pass = "track_upgrade_candidates"
  /\ MONITORED_ONLY
  /\ Len(upstream.artists) = 2
  /\ upstream.artists[1].monitored
  /\ Len(upstream.artists[1].albums) = 1
  /\ upstream.artists[1].albums[1].monitored
  /\ upstream.artists[1].albums[1].tracks
       = <<Track(111, "unmonitored_upgradable")>>
  /\ candidates = <<Candidate(2, 21, 211, 0)>>

\* The ids of a candidate list, in its order.
ArtistIds(cs) == [n \in 1..Len(cs) |-> cs[n].artistId]

\* C17: the missing-artist candidate list holds, once each and in the order
\* of the artist read, exactly the artists with trackCount > trackFileCount
\* that pass the monitored filter and whose id is not in the processed list;
\* no artist with trackCount = trackFileCount is a candidate.
C17_MissingArtistCandidates ==
  (phase = "collected" /\ pass = "incomplete_artists") =>
    /\ Range(ArtistIds(candidates))
         = {a.id : a \in {b \in Range(upstream.artists) :
                            /\ b.trackCount > b.trackFileCount
                            /\ MONITORED_ONLY => b.monitored
                            /\ b.id \notin Range(processed_artists)}}
    /\ \A m, n \in 1..Len(candidates) :
         m < n => candidates[m].artistId < candidates[n].artistId
    /\ \A n \in 1..Len(candidates) :
         ArtistOf(candidates[n]).trackCount
           # ArtistOf(candidates[n]).trackFileCount

\* Of an incomplete processed artist, a complete artist and an incomplete
\* artist, only the last is a candidate.
C17_Witness ==
  /\ phase = "collected"
  /\ pass = "incomplete_artists"
  /\ processed_artists = <<1>>
  /\ upstream.artists = <<ArtistNode(1, "incomplete", <<>>),
                          ArtistNode(2, "complete", <<>>),
                          ArtistNode(3, "incomplete", <<>>)>>
  /\ candidates = <<Candidate(3, 0, 0, 0)>>

\* ============================================================================
\* Properties of the evaluators
\* ============================================================================
Returned(evaluator) == phase = "returned" /\ pass = evaluator

\* The quality-profile id of the item is a key of the profile mapping.
ProfileKnown ==
  /\ upstream.item.qualityProfileId # Absent
  /\ upstream.item.qualityProfileId.v \in DOMAIN upstream.profiles

\* The cutoff of the item's profile and the item's current quality id (0
\* when the track carries none) are integers, the second below the first.
TrackBelowCutoff ==
  LET cutoff == upstream.profiles[upstream.item.qualityProfileId.v].cutoff
      current == IF upstream.item.quality = Absent THEN PyInt(0)
                 ELSE upstream.item.quality
  IN /\ cutoff.type = "int"
     /\ current.type = "int"
     /\ current.v < cutoff.v

\* C18: track_needs_upgrade(track, profiles) returns true iff the track has
\* a file, its quality-profile id is present in profiles, the current
\* quality id and the profile's cutoff are both integers and the current
\* quality id is below the cutoff; in every other case it returns false.
C18_TrackNeedsUpgrade ==
  Returned("track_needs_upgrade") =>
    (ret.bool <=> (upstream.item.hasFile /\ ProfileKnown /\ TrackBelowCutoff))

\* The quality-profile id of the item is absent or not a key of the mapping.
ProfileUnresolved == ~ProfileKnown

\* The album passes the monitored filter and is fully present.
AlbumPresent ==
  /\ MONITORED_ONLY => upstream.item.monitored
  /\ upstream.item.sizeOnDisk > 0
  /\ upstream.item.trackCount <= upstream.item.trackFileCount

\* C20, as stated: the evaluator returns false for every track and every
\* album whose quality-profile id is absent or not a key of the profile
\* mapping, whatever the other fields are.
C20_Original ==
  ((Returned("track_needs_upgrade") \/ Returned("album_needs_upgrade"))
     /\ ProfileUnresolved) => ~ret.bool

\* C20, amended: for an unresolved profile track_needs_upgrade returns
\* false; album_needs_upgrade returns true exactly when the album passes the
\* monitored filter, is fully present and has its qualityCutoffNotMet flag
\* set, and false otherwise; the album test of the artist collector returns
\* true exactly when the flag is set.
C20_UnresolvedProfile ==
  (phase = "returned" /\ ProfileUnresolved) =>
    /\ pass = "track_needs_upgrade" => ~ret.bool
    /\ pass = "album_needs_upgrade" =>
         (ret.bool <=> (AlbumPresent /\ upstream.item.qualityCutoffNotMet))
    /\ pass = "artist_album_needs_upgrade" =>
         (ret.bool <=> upstream.item.qualityCutoffNotMet)

\* A fully present, unflagged album below the cutoff of every profile, its
\* profile id unknown: no upgrade.
C20_Witness ==
  /\ Returned("album_needs_upgrade")
  /\ upstream.item.qualityProfileId = PyInt(2)
  /\ DOMAIN upstream.profiles = {0, 1}
  /\ \A p \in {0, 1} : upstream.profiles[p].cutoff = PyInt(MaxQuality)
  /\ AlbumPresent
  /\ ~upstream.item.qualityCutoffNotMet
  /\ upstream.item.quality # Absent
  /\ upstream.item.qualityId = PyInt(1)
  /\ ret = BoolValue(FALSE)

\* sizeOnDisk > 0 and no track without a file
FullyPresent(album) ==
  album.sizeOnDisk > 0 /\ album.trackCount <= album.trackFileCount

\* C19: an album that is not fully present (sizeOnDisk = 0, or trackCount >
\* trackFileCount) is never counted as needing an upgrade by an upgrade
\* collector: every candidate of the album collector is a fully present
\* album, and the artist collector counts for an artist no more albums than
\* the artist has fully present ones.
C19_AbsentNeverUpgraded ==
  phase = "collected" =>
    /\ pass = "album_upgrade_candidates" =>
         \A n \in 1..Len(candidates) : FullyPresent(AlbumOf(candidates[n]))
    /\ pass = "get_artist_with_upgrade_albums" =>
         \A n \in 1..Len(candidates) :
           candidates[n].albumCount
             <= Cardinality({j \in 1..Len(ArtistOf(candidates[n]).albums) :
                               FullyPresent(ArtistOf(candidates[n]).albums[j])})

\* The library with the albums of artist `failed`, or the tracks of album
\* `failed`, taken away.
WithoutSubtree(artists, failed) ==
  [i \in 1..Len(artists) |->
     IF artists[i].id = failed
       THEN [artists[i] EXCEPT !.albums = <<>>]
       ELSE [artists[i] EXCEPT !.albums =
               [j \in 1..Len(artists[i].albums) |->
                  IF artists[i].albums[j].id = failed
                    THEN [artists[i].albums[j] EXCEPT !.tracks = <<>>]
                    ELSE artists[i].albums[j]]]]

\* The candidate is an album or a track of artist `failed`, or a track of
\* album `failed`, or that artist counted for its albums.
InSubtree(c, failed) == c.artistId = failed \/ c.albumId = failed

\* C21: when the album request of one artist, or the track request of one
\* album, fails during a nested collection, the candidate list is the one
\* the collector builds when that request returns an empty list: the
\* sub-tree contributes no candidate, and the other artists and albums
\* contribute the candidates they contribute when no request fails.
C21_FailedFetchIsolated ==
  (phase = "collected" /\ FailedFetch # 0) =>
    /\ candidates = FoundIn(WithoutSubtree(upstream.artists, FailedFetch))
    /\ \A n \in 1..Len(candidates) : ~InSubtree(candidates[n], FailedFetch)
    /\ candidates = SelectSeq(FoundIn(upstream.artists),
                              LAMBDA c : ~InSubtree(c, FailedFetch))

\* The album request of the first artist fails; its incomplete album is not
\* a candidate, the incomplete album of the second artist is.
C21_Witness ==
  /\ phase = "collected"
  /\ pass = "incomplete_albums"
  /\ FailedFetch = 1
  /\ Len(upstream.artists) = 2
  /\ upstream.artists[1].albums = <<Album(11, 1, "partial", <<>>)>>
  /\ upstream.artists[1].monitored
  /\ candidates = <<Candidate(2, 21, 0, 0)>>

\* ============================================================================
\* Properties of the passes: reads, quota, delays
\* ============================================================================
\* The first read of the pass, and the 60 s back-off wait.
TopRead == log[1]

BackOff == \E k \in 1..Len(log) : log[k] = Sleep(60, -1)

NoCommand == \A k \in 1..Len(log) : log[k].cmd \in {"GET", "sleep"}

\* C22: when the top-level artist read fails, the pass builds no candidate
\* list and posts no command, and what the caller observes (the value
\* returned and the 60 s back-off wait) differs from what it observes after
\* a successful read that yields no candidate: the back-off wait happens
\* after the failed read and not after the successful one.
C22_BackOffSignal ==
  (/\ phase = "returned"
   /\ pass \in {"process_artists_missing", "process_albums_missing",
                "process_album_upgrades"}
   /\ log # <<>>) =>
    IF ~TopRead.ack
      THEN candidates = <<>> /\ NoCommand /\ BackOff
      ELSE attempts = <<>> => ~BackOff

\* The records the wanted/cutoff call of the collection returned: none when
\* the call failed.
CutoffRecords ==
  IF log[1].ack
    THEN SelectSeq(AllAlbums(upstream.artists),
                   LAMBDA a : a.qualityCutoffNotMet)
    ELSE <<>>

IncompleteMonitored ==
  {i \in 1..Len(upstream.artists) :
     /\ upstream.artists[i].monitored
     /\ upstream.artists[i].trackCount > upstream.artists[i].trackFileCount}

\* Every other artist is complete, or unmonitored and filtered out.
OthersFiltered ==
  \A i \in 1..Len(upstream.artists) :
    \/ i \in IncompleteMonitored
    \/ upstream.artists[i].trackCount = upstream.artists[i].trackFileCount
    \/ MONITORED_ONLY /\ ~upstream.artists[i].monitored

\* The commands posted in the pass, in order: name and id.
Commands ==
  LET posted == SelectSeq(log, LAMBDA e : e.cmd \notin {"sleep", "GET"})
  IN [k \in 1..Len(posted) |-> <<posted[k].cmd, posted[k].key, posted[k].id>>]

\* C25: with three artists of which exactly one is incomplete and monitored
\* (the others complete or filtered out as unmonitored) and not processed
\* before, quota 1, sequential
\* order and every request acknowledged, the missing-artist pass posts
\* exactly one RefreshArtist and then exactly one MissingAlbumSearch, both
\* for that artist's id, posts nothing else and ends with processed_count 1.
C25_OneArtistScenario ==
  (/\ pass = "process_artists_missing" /\ phase = "returned"
   /\ Len(upstream.artists) = 3
   /\ Cardinality(IncompleteMonitored) = 1 /\ OthersFiltered
   /\ \A i \in IncompleteMonitored :
        upstream.artists[i].id \notin Range(processed_artists)
   /\ HUNT_MISSING_ITEMS = 1 /\ ~RANDOM_SELECTION /\ AllAcked) =>
    LET id == upstream.artists[CHOOSE i \in IncompleteMonitored : TRUE].id
    IN /\ Commands = <<<<"RefreshArtist", "artistIds", id>>,
                       <<"MissingAlbumSearch", "artistIds", id>>>>
       /\ processed_count = 1

\* The second of three artists is the incomplete one.
C25_Witness ==
  /\ pass = "process_artists_missing" /\ phase = "returned"
  /\ Len(upstream.artists) = 3
  /\ IncompleteMonitored = {2} /\ OthersFiltered
  /\ HUNT_MISSING_ITEMS = 1 /\ ~RANDOM_SELECTION /\ AllAcked
  /\ processed_count = 1
  /\ ret = ListValue(<<2>>)

\* The last log entry of the attempt on index i.
LastOf(i) == log[CHOOSE k \in LogAt(i) : \A m \in LogAt(i) : m <= k]

\* C26: every attempt of a pass, the attempt whose refresh was not
\* acknowledged included, ends with the inter-item delay of SLEEP_DURATION
\* seconds, before the next selection and before the pass returns.
C26_DelayAfterAttempt ==
  pass \in IndexPasses =>
    \A n \in 1..Len(attempts) :
      LastOf(attempts[n].idx) = Sleep(SLEEP_DURATION, attempts[n].idx)

\* ============================================================================
\* Properties of the cycle: modes, progress, disabled passes
\* ============================================================================
RecognisedModes == {"artist", "album", "both"}

\* C27: when HUNT_MISSING_MODE is not one of the recognised values the cycle
\* still runs the default missing pass (the artist pass, "artist" being the
\* default mode): at the missing stage of the cycle the step taken is the
\* call of process_artists_missing.
C27_DefaultMode ==
  [][(/\ HUNT_MISSING_MODE \notin RecognisedModes
      /\ pc = "process_artists_missing" /\ pass = "none")
       => pass' = "process_artists_missing"]_vars

\* The cycle under the scheduling of a single thread: the statement the
\* program is at is eventually executed.
SpecCycleLive == SpecCycle /\ WF_vars(NextCycle)

\* C28: the orchestrator never stops cycling: for every sequence of upstream
\* responses and every missing mode, each started cycle eventually reaches
\* its end-of-cycle sleep, after which the next cycle starts.
C28_CyclesForever ==
  /\ (pc = "load_state") ~> (pc = "sleep")
  /\ (pc = "sleep") ~> (pc = "load_state")


(***************************************************************************)
(* C29  Each pass can be switched off on its own, and a pass that is       *)
(* switched off sends nothing.                                             *)
(***************************************************************************)
ArtistsMissingEnabled == HUNT_MISSING_MODE \in {"artist", "both"}

UpgradesEnabled == HUNT_UPGRADE_ALBUMS > 0

\* C29: in every cycle, a pass that the configuration disables (the
\* missing-artist pass by the mode, the upgrade pass by an upgrade quota of
\* 0) issues no remote call.
C29_DisabledPassSilent ==
  /\ (pass = "process_artists_missing" /\ ~ArtistsMissingEnabled) => log = <<>>
  /\ (pass = "process_album_upgrades" /\ ~UpgradesEnabled) => log = <<>>


(***************************************************************************)
(* C30  The monitored-only filter acts when the candidate list is built.   *)
(***************************************************************************)
\* The attempts that ended because the item picked was unmonitored.
DiscardedUnmonitored ==
  {n \in 1..Len(attempts) : attempts[n].result = "SkippedUnmonitored"}

\* C30: in no pass is an item that the selection loop has already picked
\* discarded for being unmonitored; unmonitored items are left out when the
\* candidate list is built.
C30_FilterBeforeSelection == DiscardedUnmonitored = {}


\* ============================================================================
\* Properties of the selection loop: termination, draws, command order
\* ============================================================================
\* The quotas that differ in the loop tests: the code compares a quota only
\* with 0 and with processed_count, so 0 stands for every quota <= 0.
InitPassLive == InitPass /\ HUNT_MISSING_ITEMS >= 0 /\ MAX_ITEMS >= 0

\* The pass runs to its end: no iteration of `while True:` blocks.
SpecPassLive == InitPassLive /\ [][NextPass]_vars /\ WF_vars(NextPass)

\* C31: every selection pass terminates: over a list of N candidates the
\* loop runs at most N selecting iterations, each on an index not used
\* before, whatever the quota and the responses to refresh and search, and
\* the pass then returns.
C31_Terminates ==
  /\ [](pass \in IndexPasses =>
          /\ Len(attempts) <= Len(candidates)
          /\ Cardinality(used_indices) = Len(attempts))
  /\ <>(phase = "returned")

\* an unbounded quota and a refresh that is never acknowledged: the loop
\* ends after the third candidate
C31_Witness ==
  /\ pass = "process_album_upgrades" /\ phase = "returned" /\ MAX_ITEMS = 0
  /\ Len(candidates) = 3 /\ Len(attempts) = 3
  /\ \A k \in 1..3 : attempts[k].result = "RefreshFailed"


\* ------------------------------------------ the selection step, draw by draw
\* The head of `while True:` and the selection of idx, with every call of
\* random.randint a step of its own.  ret holds idx; the workflow that
\* follows used_indices.add(idx) is left out (it does not touch
\* used_indices), and the quota is never reached.
Unused == {i \in 0..(Len(candidates) - 1) : i \notin used_indices}

SelectFrame ==
  /\ UNCHANGED <<upstream, pass, processed_artists, candidates,
                 processed_count, newly_processed, page, records, indices,
                 log, attempts>>
  /\ UNCHANGED <<cfgVars, mainVars>>

\* `if len(used_indices) >= len(...): break`, then the branch on
\* `RANDOM_SELECTION and len(...) > 1`; the sequential branch yields
\* idx_candidates[0], or breaks on an empty idx_candidates
select_enter ==
  /\ phase = "loop"
  /\ IF Exhausted(Len(candidates), used_indices)
       THEN phase' = "returned" /\ ret' = NoneValue
     ELSE IF RANDOM_SELECTION /\ Len(candidates) > 1
       THEN phase' = "draw" /\ ret' = NoneValue
     ELSE IF first_unused(Len(candidates), used_indices) = {}
       THEN phase' = "returned" /\ ret' = NoneValue
     ELSE /\ phase' = "selected"
          /\ \E idx \in first_unused(Len(candidates), used_indices) :
               ret' = ListValue(<<idx>>)
  /\ UNCHANGED used_indices
  /\ SelectFrame

\* idx = random.randint(0, n - 1) yields a used index: the inner loop repeats
select_randint_used ==
  /\ phase = "draw"
  /\ \E idx \in 0..(Len(candidates) - 1) :
       /\ idx \in used_indices
       /\ ret' = ListValue(<<idx>>)
  /\ UNCHANGED <<phase, used_indices>>
  /\ SelectFrame

\* idx = random.randint(0, n - 1) yields an unused index: break
select_randint_unused ==
  /\ phase = "draw"
  /\ \E idx \in 0..(Len(candidates) - 1) :
       /\ idx \notin used_indices
       /\ ret' = ListValue(<<idx>>)
  /\ phase' = "selected"
  /\ UNCHANGED used_indices
  /\ SelectFrame

\* used_indices.add(idx), and the next iteration
select_add ==
  /\ phase = "selected"
  /\ used_indices' = used_indices \cup {ret.list[1]}
  /\ phase' = "loop"
  /\ UNCHANGED ret
  /\ SelectFrame

InitSelect ==
  /\ pass \in IndexPasses
  /\ phase = "loop"
  /\ \E n \in 0..MaxN :
       /\ upstream = [artists |-> <<>>, n |-> n]
       /\ candidates = LeafCandidates(n)
  /\ HUNT_MISSING_ITEMS = 1
  /\ MAX_ITEMS = 0
  /\ HUNT_UPGRADE_ALBUMS = 0
  /\ RANDOM_SELECTION \in BOOLEAN
  /\ MONITORED_ONLY = TRUE
  /\ HUNT_MISSING_MODE = "artist"
  /\ STATE_RESET_INTERVAL_HOURS = 168
  /\ processed_artists = <<>>
  /\ used_indices = {}
  /\ processed_count = 0
  /\ newly_processed = <<>>
  /\ page = 0
  /\ records = 0
  /\ indices = {}
  /\ ret = NoneValue
  /\ log = <<>>
  /\ attempts = <<>>
  /\ IdleMain

NextSelect ==
  \/ select_enter
  \/ select_randint_used
  \/ select_randint_unused
  \/ select_add

SpecSelect == InitSelect /\ [][NextSelect]_vars

\* Fair draws: random.randint does not avoid the unused indices for ever.
SpecSelectLive ==
  SpecSelect /\ WF_vars(NextSelect) /\ WF_vars(select_randint_unused)

\* C32: in random mode every index chosen is within range and unused; the
\* rejection-sampling draw is entered only when an unused index exists and,
\* under fair draws, it returns; with a single candidate or with random mode
\* off the index chosen is the lowest unused one.
C32_Selection ==
  /\ [](phase = "draw" => Unused # {})
  /\ [](phase = "selected" =>
          /\ ret.list[1] \in Unused
          /\ (~RANDOM_SELECTION \/ Len(candidates) <= 1) =>
               ret.list[1] = Min(Unused))
  /\ (phase = "draw") ~> (phase = "selected")

\* two indices are used and the draw yields the third
C32_Witness ==
  /\ RANDOM_SELECTION /\ Len(candidates) = 3
  /\ phase = "selected" /\ used_indices = {1, 2} /\ ret = ListValue(<<0>>)


\* The entries a workflow logs between its refresh and a search: the 5 s
\* wait, and the primary search before a fallback.
BetweenRefreshAndSearch(e) ==
  e = Sleep(5, e.idx) \/ e.cmd = "MissingAlbumSearch"

\* Search k follows, in the same workflow, an acknowledged RefreshArtist.
RefreshedBefore(k) ==
  \E j \in 1..(k - 1) :
    /\ log[j].cmd = "RefreshArtist" /\ log[j].ack
    /\ log[j].idx = log[k].idx
    /\ \A m \in (j + 1)..(k - 1) :
         log[m].idx = log[k].idx /\ BetweenRefreshAndSearch(log[m])

\* C33: every search command (MissingAlbumSearch, AlbumSearch, TrackSearch)
\* posted for a candidate is preceded, within that candidate's workflow, by
\* an acknowledged RefreshArtist; no search is posted without such a refresh.
C33_RefreshBeforeSearch ==
  \A k \in 1..Len(log) : IsSearch(log[k]) => RefreshedBefore(k)


\* The commands of one name posted for the candidate at index i.
CommandsAt(i, names) == {k \in LogAt(i) : log[k].cmd \in names}

PrimarySearches(i) ==
  IF pass \in ArtistMissingPasses
    THEN CommandsAt(i, {"MissingAlbumSearch"})
    ELSE CommandsAt(i, {"AlbumSearch", "TrackSearch"})

FallbackSearches(i) ==
  IF pass \in ArtistMissingPasses THEN CommandsAt(i, {"AlbumSearch"}) ELSE {}

\* C34: commands are issued one candidate at a time: in the passes that
\* select by index a candidate gets at most one RefreshArtist, one primary
\* search and one fallback search, the entries of one candidate are
\* contiguous in the log, and a candidate's entries end with a delay before
\* the first entry of the next candidate.
C34_OneCandidateAtATime ==
  pass \in IndexPasses =>
    /\ \A i \in Selected :
         /\ Cardinality(CommandsAt(i, {"RefreshArtist"})) <= 1
         /\ Cardinality(PrimarySearches(i)) <= 1
         /\ Cardinality(FallbackSearches(i)) <= 1
         /\ \A k1, k2 \in LogAt(i) : \A m \in k1..k2 : log[m].idx = i
    /\ \A k \in 1..(Len(log) - 1) :
         (log[k].idx >= 0 /\ log[k + 1].idx # log[k].idx) =>
           log[k].cmd = "sleep"

\* two artists in turn: the first through the fallback, the second with an
\* unacknowledged refresh
C34_Witness ==
  /\ pass = "process_artists_missing" /\ Len(attempts) = 2
  /\ attempts[1].result = "FallbackAccepted"
  /\ attempts[2].result = "RefreshFailed"
  /\ Cardinality(FallbackSearches(attempts[1].idx)) = 1


\* ============================================================================
\* The order of the candidate list
\* ============================================================================
\* The collectors that walk the library in nested loops, and the flat one.
OrderCollectors ==
  {"incomplete_artists", "incomplete_albums", "missing_tracks",
   "track_upgrade_candidates"}

\* Libraries of full width: every artist with OrderAlbums albums, every
\* album with OrderTracks tracks, each a candidate or not.
OrderTrackShapes(collector) ==
  IF collector = "missing_tracks"
    THEN [1..OrderTracks -> {"missing", "upgradable"}]
  ELSE IF collector = "track_upgrade_candidates"
    THEN [1..OrderTracks -> {"upgradable", "at_cutoff"}]
    ELSE {<<>>}

OrderAlbumShapes(collector) ==
  IF collector \in ArtistLevel THEN {<<>>}
  ELSE [1..OrderAlbums ->
          [kind : IF collector = "incomplete_albums"
                    THEN {"missing", "upgradable"} ELSE {"upgradable"},
           tracks : OrderTrackShapes(collector)]]

OrderLibraries(collector) ==
  {BuildLibrary(shape) :
     shape \in [1..OrderArtists ->
                  [kind : IF collector \in ArtistLevel
                            THEN ArtistKinds ELSE {"incomplete"},
                   albums : OrderAlbumShapes(collector)]]}

InitOrder ==
  /\ pass \in OrderCollectors
  /\ phase = "call"
  /\ upstream \in {[artists |-> l, n |-> 0, profiles |-> LibraryProfiles]
                   : l \in OrderLibraries(pass)}
  /\ HUNT_MISSING_ITEMS = 1
  /\ MAX_ITEMS = 1
  /\ HUNT_UPGRADE_ALBUMS = 0
  /\ RANDOM_SELECTION = TRUE
  /\ MONITORED_ONLY = TRUE
  /\ HUNT_MISSING_MODE = "artist"
  /\ STATE_RESET_INTERVAL_HOURS = 168
  /\ processed_artists = <<>>
  /\ candidates = <<>>
  /\ used_indices = {}
  /\ processed_count = 0
  /\ newly_processed = <<>>
  /\ page = 0
  /\ records = 0
  /\ indices = {}
  /\ ret = NoneValue
  /\ log = <<>>
  /\ attempts = <<>>
  /\ IdleMain

NextOrder ==
  \/ collect_incomplete_artists
  \/ collect_incomplete_albums
  \/ collect_missing_tracks
  \/ collect_track_upgrade_candidates

SpecOrder == InitOrder /\ [][NextOrder]_vars

\* Where a candidate stands in the upstream responses: the position of its
\* artist in the artist read, of its album in the album read of that artist,
\* of its track in the track read of that album (0 where it has none).
ArtistPos(c) ==
  CHOOSE i \in 1..Len(upstream.artists) : upstream.artists[i].id = c.artistId

AlbumPos(c) ==
  IF c.albumId = 0 THEN 0
  ELSE LET albums == upstream.artists[ArtistPos(c)].albums
       IN CHOOSE j \in 1..Len(albums) : albums[j].id = c.albumId

TrackPos(c) ==
  IF c.trackId = 0 THEN 0
  ELSE LET tracks == upstream.artists[ArtistPos(c)].albums[AlbumPos(c)].tracks
       IN CHOOSE k \in 1..Len(tracks) : tracks[k].id = c.trackId

LexLess(c, d) ==
  \/ ArtistPos(c) < ArtistPos(d)
  \/ ArtistPos(c) = ArtistPos(d) /\ AlbumPos(c) < AlbumPos(d)
  \/ /\ ArtistPos(c) = ArtistPos(d) /\ AlbumPos(c) = AlbumPos(d)
     /\ TrackPos(c) < TrackPos(d)

\* C35: the candidate list keeps the upstream order: candidate m precedes
\* candidate n iff its (artist position, album position, track position) in
\* the upstream responses is lexicographically smaller; for the flat artist
\* collector this is the order of the artist read.
C35_UpstreamOrder ==
  phase = "collected" =>
    \A m, n \in 1..Len(candidates) :
      m < n <=> LexLess(candidates[m], candidates[n])

\* candidates of two artists, of two albums of one artist and of two tracks
\* of one album, with a track in between that is no candidate
C35_Witness ==
  /\ phase = "collected" /\ pass = "track_upgrade_candidates"
  /\ Len(candidates) = 4
  /\ ArtistPos(candidates[1]) = 1 /\ ArtistPos(candidates[4]) = 2
  /\ AlbumPos(candidates[1]) = 1 /\ TrackPos(candidates[1]) = 2
  /\ ArtistPos(candidates[2]) = 1 /\ AlbumPos(candidates[2]) = 2
  /\ AlbumPos(candidates[3]) = 2 /\ TrackPos(candidates[2]) = 1
  /\ TrackPos(candidates[3]) = 2


\* ============================================================================
\* Properties of the processed lists across passes and cycles
\* ============================================================================
\* The candidate at index i was refreshed with acknowledgment and then one
\* of its searches, primary or fallback, was acknowledged.
RefreshedAndSearched(i) ==
  \E j, k \in LogAt(i) :
    /\ j < k
    /\ log[j].cmd = "RefreshArtist" /\ log[j].ack
    /\ IsSearch(log[k]) /\ log[k].ack

\* The artists the missing-artist pass would take as candidates.
Eligible(processed) ==
  {a.id : a \in Range(IncompleteArtists(upstream.artists, processed))}

\* C36: when the missing-artist pass hands its list to the cycle, an artist
\* it selected is in the processed list of the state only if its
\* RefreshArtist and then its MissingAlbumSearch or fallback AlbumSearch
\* were acknowledged; an artist whose refresh or searches failed is not
\* recorded and is still a candidate for the list the next cycle loads.
C36_RecordedOnlyWhenSearched ==
  [][(pc = "process_artists_missing" /\ phase = "returned" /\ pc' # pc) =>
       \A i \in Selected :
         LET id == candidates[i + 1].artistId
         IN /\ id \in Range(state'.processed_artists) =>
                 RefreshedAndSearched(i)
            /\ ~RefreshedAndSearched(i) =>
                 /\ id \notin Range(state'.processed_artists)
                 /\ id \in Eligible(state'.processed_artists)]_vars

\* the pass returns a list that holds the artist found through the fallback
\* and not the artist whose refresh failed before
C36_Witness ==
  /\ pc = "process_artists_missing" /\ phase = "returned"
  /\ Len(attempts) = 2
  /\ attempts[1].result = "RefreshFailed"
  /\ attempts[2].result = "FallbackAccepted"
  /\ ret.list = <<candidates[attempts[2].idx + 1].artistId>>


NoDuplicate(l) == \A m, n \in 1..Len(l) : m # n => l[m] # l[n]

\* C37: with pairwise distinct upstream artist ids and a loaded
\* processed-artist list without duplicate, no id is twice in the
\* processed-artist list, in the state, in the list a pass returns and in the
\* state file, after any number of cycles.
C37_NoDuplicateProcessed ==
  NoDuplicate([i \in 1..Len(upstream.artists) |-> upstream.artists[i].id]) =>
    /\ NoDuplicate(state.processed_artists)
    /\ NoDuplicate(ret.list)
    /\ stateFile.kind = "valid" => NoDuplicate(stateFile.processed_artists)

\* a later cycle has added a second artist to the list it loaded
C37_Witness ==
  /\ Len(pre.processed_artists) = 1 /\ Len(state.processed_artists) = 2
  /\ now > 0 /\ pc = "sleep"
  /\ stateFile.kind = "valid" /\ stateFile.processed_artists = state.processed_artists


\* The ways the missing-artist pass ends before its loop: the quota is 0 or
\* less, the artist read failed (or was empty), no artist is eligible.
SkippedByQuota == HUNT_MISSING_ITEMS <= 0

SkippedByRead ==
  HUNT_MISSING_ITEMS > 0 /\ log # <<>> /\ (~log[1].ack \/ upstream.artists = <<>>)

SkippedForNoCandidate ==
  /\ HUNT_MISSING_ITEMS > 0 /\ log # <<>> /\ log[1].ack
  /\ Eligible(processed_artists) = {}

\* C38: when the missing-artist pass is skipped (quota <= 0), or its artist
\* read fails, or no artist is eligible, it posts no command and returns the
\* processed list it was given, unchanged.
C38_SkippedPassFrame ==
  (/\ pass = "process_artists_missing" /\ phase = "returned"
   /\ SkippedByQuota \/ SkippedByRead \/ SkippedForNoCandidate) =>
    /\ NoCommand
    /\ attempts = <<>>
    /\ ret = ListValue(processed_artists)

\* the only incomplete artist is in the list given: nothing posted, the
\* list returned as it was
C38_Witness ==
  /\ pass = "process_artists_missing" /\ phase = "returned"
  /\ SkippedForNoCandidate
  /\ processed_artists = <<1>> /\ ret = ListValue(<<1>>)
  /\ IncompleteMonitored = {1} /\ Len(upstream.artists) = 2


\* The searches the running pass has had acknowledged.
AcceptedAttempts ==
  {n \in 1..Len(attempts) : Success(attempts[n].result)}

\* C39: the missing-artist stage of a cycle changes only the
\* processed-artist list, the missing-album stage changes at most the
\* processed-album list, and the upgrade stage changes neither list nor
\* last_reset_time; none of them writes the state file; and every pass
\* counts from 0 against its own quota: the quota one pass has used is not
\* charged to the next.
C39_PassFrames ==
  [][/\ pc = "process_artists_missing" =>
          /\ state'.processed_albums = state.processed_albums
          /\ state'.last_reset_time = state.last_reset_time
          /\ stateFile' = stateFile
     /\ pc = "process_albums_missing" =>
          /\ state'.processed_artists = state.processed_artists
          /\ state'.last_reset_time = state.last_reset_time
          /\ stateFile' = stateFile
     /\ pc = "process_album_upgrades" =>
          /\ state' = state
          /\ stateFile' = stateFile
     /\ pass' # pass => processed_count' = 0
     /\ pass' = "process_album_upgrades" =>
          processed_count' = Cardinality(AcceptedAttempts')]_vars

\* the artist pass has used its quota of 1 in this cycle, and the upgrade
\* pass has used its own
C39_Witness ==
  /\ pc = "process_album_upgrades" /\ phase = "returned"
  /\ MAX_ITEMS = 1 /\ processed_count = 1
  /\ HUNT_MISSING_ITEMS = 1
  /\ Len(state.processed_artists) = Len(pre.processed_artists) + 1


\* A cycle has ended (its sleep is the last entry logged) and the next one
\* is about to load the state.
AfterCycle == pc = "load_state" /\ log # <<>>

WellFormed(st) == st.last_reset_time.kind = "datetime"

====
